---------------------------- MODULE Spec2Model ----------------------------
(***************************************************************************)
(* Job pipeline of pushkind-crawlers: the Category-Match, Benchmark and    *)
(* Crawl handlers (src/src/processing) running as concurrent tasks against *)
(* the shared relational store (src/src/repository).  Every repository     *)
(* call is one atomic step (one SQL statement or one transaction) and may  *)
(* fail with a RepositoryError; the code between two repository calls is   *)
(* local to the task and is folded into the step of the call it precedes.  *)
(***************************************************************************)
EXTENDS Integers, Sequences, FiniteSets, TLC

(***************************************************************************)
(* The store's rows.  Crawlers 1 and 2 and benchmark 1 belong to hub 7,     *)
(* crawler 3 and benchmark 2 to hub 8.                                      *)
(***************************************************************************)
Hubs == {7, 8}

Crawlers == {1, 2, 3}

Benchmarks == {1, 2}

crawler_hub_id == (1 :> 7) @@ (2 :> 7) @@ (3 :> 8)

crawler_selector == (1 :> "rusteaco") @@ (2 :> "101tea") @@ (3 :> "gutenberg")

benchmark_hub_id == (1 :> 7) @@ (2 :> 8)

(* Product urls a store serves, and the number of envelopes delivered.     *)
MaxUrl == 2

Urls == 1..MaxUrl

MaxJobs == 2

(***************************************************************************)
(* The envelopes that may be delivered; each delivered envelope is spawned *)
(* as one job task.  Jobs 4 and 5 are the same Benchmark(1) envelope        *)
(* delivered twice (delivery is at-least-once).                            *)
(***************************************************************************)
Message ==
  (1 :> [kind |-> "ProductCategoryMatch", hub_id |-> 7]) @@
  (2 :> [kind |-> "ProductCategoryMatch", hub_id |-> 7]) @@
  (3 :> [kind |-> "ProductCategoryMatch", hub_id |-> 8]) @@
  (4 :> [kind |-> "Benchmark", benchmark_id |-> 1]) @@
  (5 :> [kind |-> "Benchmark", benchmark_id |-> 1]) @@
  (6 :> [kind |-> "Crawler", variant |-> "Selector", selector |-> "rusteaco"]) @@
  (7 :> [kind |-> "Crawler", variant |-> "SelectorProducts",
         selector |-> "101tea", urls |-> <<1>>]) @@
  (8 :> [kind |-> "Crawler", variant |-> "Selector", selector |-> "gutenberg"]) @@
  (9 :> [kind |-> "Crawler", variant |-> "SelectorProducts",
         selector |-> "101tea", urls |-> <<>>])

Jobs == DOMAIN Message

CategoryJobs == {j \in Jobs : Message[j].kind = "ProductCategoryMatch"}

BenchmarkJobs == {j \in Jobs : Message[j].kind = "Benchmark"}

CrawlerJobs == {j \in Jobs : Message[j].kind = "Crawler"}

VARIABLES
  crawler_processing,    \* crawlers.processing, by crawler id
  benchmark_processing,  \* benchmarks.processing, by benchmark id
  crawler_stats,         \* crawlers.(num_products, updated_at), by crawler id
  benchmark_embedding,   \* benchmarks.embedding is present, by benchmark id
  benchmark_stats,       \* benchmarks.(num_products, updated_at), by benchmark id
  products,              \* the products table, see Product
  next_product_id,       \* the products table's next autoincrement id
  product_benchmark,     \* association rows [benchmark_id, product_id, distance]
  product_images,        \* the product_images table: rows [product_id, url]
  categories,            \* the categories table: rows [id, hub_id, embedding]
  pages,                 \* the raw products the web stores serve, see RawProduct
  socket,                \* the PULL socket: frames pending and received, the receive loop
  clock,                 \* the store's clock (diesel::dsl::now)
  pc,                    \* each job task's position in its handler
  local,                 \* each job task's local variables
  outcome,               \* how the job's inner function ended (Ok / Err)
  result,                \* how the handler returned
  events                 \* per job: the repository writes it issued, in order

(* No frame pending, the receive loop blocked in recv_bytes.               *)
NoSocket == [pending |-> <<>>, received |-> <<>>, loop |-> "recv"]

flags == <<crawler_processing, benchmark_processing>>

data == <<crawler_stats, benchmark_embedding, benchmark_stats, products,
          next_product_id, product_benchmark, product_images, categories, pages,
          socket, clock>>

db == <<flags, data>>

vars == <<db, pc, local, outcome, result, events>>

(***************************************************************************)
(* Repository: hub-scoped processing guard (repository/category.rs).       *)
(***************************************************************************)
active_crawlers(hub_id) ==
  Cardinality({c \in Crawlers : crawler_hub_id[c] = hub_id /\ crawler_processing[c]})

active_benchmarks(hub_id) ==
  Cardinality({b \in Benchmarks : benchmark_hub_id[b] = hub_id /\ benchmark_processing[b]})

(* Mutant: the update lacks the hub_id filter.                             *)
set_all_crawlers_processing(hub_id, processing) ==
  [c \in Crawlers |-> processing]

set_hub_crawlers_processing(hub_id, processing) ==
  [c \in Crawlers |->
     IF crawler_hub_id[c] = hub_id THEN processing ELSE crawler_processing[c]]

set_hub_benchmarks_processing(hub_id, processing) ==
  [b \in Benchmarks |->
     IF benchmark_hub_id[b] = hub_id THEN processing ELSE benchmark_processing[b]]

Mark(j, event) == events' = [events EXCEPT ![j] = Append(@, event)]

Goto(j, label) == pc' = [pc EXCEPT ![j] = label]

Return(j, value) ==
  /\ pc' = [pc EXCEPT ![j] = "done"]
  /\ result' = [result EXCEPT ![j] = value]

(***************************************************************************)
(* run_with_hub_processing_guard (processing/category.rs), one action per  *)
(* repository call.  has_any_processing_in_hub issues two count queries on *)
(* one connection without a transaction: two steps.                        *)
(***************************************************************************)
guard_check_crawlers(j) ==
  /\ pc[j] = "start"
  /\ \/ /\ Return(j, "Err")                       \* the query fails
        /\ UNCHANGED <<db, local, outcome, events>>
     \/ /\ active_crawlers(Message[j].hub_id) > 0
        /\ Return(j, "Skipped")                   \* Ok(None)
        /\ UNCHANGED <<db, local, outcome, events>>
     \/ /\ active_crawlers(Message[j].hub_id) = 0
        /\ Goto(j, "check_benchmarks")
        /\ UNCHANGED <<db, local, outcome, result, events>>

(* Mutant: the benchmarks of the hub are not counted.                      *)
guard_check_benchmarks_ignored(j) ==
  /\ pc[j] = "check_benchmarks"
  /\ \/ /\ Return(j, "Err")
        /\ UNCHANGED <<db, local, outcome, events>>
     \/ /\ Goto(j, "set_crawlers")
        /\ UNCHANGED <<db, local, outcome, result, events>>

guard_check_benchmarks(j) ==
  /\ pc[j] = "check_benchmarks"
  /\ \/ /\ Return(j, "Err")
        /\ UNCHANGED <<db, local, outcome, events>>
     \/ /\ active_benchmarks(Message[j].hub_id) > 0
        /\ Return(j, "Skipped")
        /\ UNCHANGED <<db, local, outcome, events>>
     \/ /\ active_benchmarks(Message[j].hub_id) = 0
        /\ Goto(j, "set_crawlers")
        /\ UNCHANGED <<db, local, outcome, result, events>>

guard_set_crawlers(j) ==
  /\ pc[j] = "set_crawlers"
  /\ \/ /\ Mark(j, "set_hub_crawlers_processing(true)->err")
        /\ Return(j, "Err")
        /\ UNCHANGED <<db, local, outcome>>
     \/ /\ crawler_processing' = set_hub_crawlers_processing(Message[j].hub_id, TRUE)
        /\ Mark(j, "set_hub_crawlers_processing(true)")
        /\ Goto(j, "set_benchmarks")
        /\ UNCHANGED <<benchmark_processing, data, local, outcome, result>>

(* Mutant: the benchmark flags are not set before the job runs.            *)
guard_set_benchmarks_skipped(j) ==
  /\ pc[j] = "set_benchmarks"
  /\ Mark(j, "set_hub_benchmarks_processing(true)")
  /\ Goto(j, "job")
  /\ UNCHANGED <<db, local, outcome, result>>

guard_set_benchmarks(j) ==
  /\ pc[j] = "set_benchmarks"
  /\ \/ /\ Mark(j, "set_hub_benchmarks_processing(true)->err")
        /\ Goto(j, "rollback")
        /\ UNCHANGED <<db, local, outcome, result>>
     \/ /\ benchmark_processing' = set_hub_benchmarks_processing(Message[j].hub_id, TRUE)
        /\ Mark(j, "set_hub_benchmarks_processing(true)")
        /\ Goto(j, "job")
        /\ UNCHANGED <<crawler_processing, data, local, outcome, result>>

(* Mutant: the guard returns Err without rolling the crawler flags back.   *)
guard_rollback_missing(j) ==
  /\ pc[j] = "rollback"
  /\ Return(j, "Err")
  /\ UNCHANGED <<db, local, outcome, events>>

guard_rollback(j) ==
  /\ pc[j] = "rollback"
  /\ \/ /\ Mark(j, "set_hub_crawlers_processing(false)->err")
        /\ UNCHANGED db
     \/ /\ crawler_processing' = set_hub_crawlers_processing(Message[j].hub_id, FALSE)
        /\ Mark(j, "set_hub_crawlers_processing(false)")
        /\ UNCHANGED <<benchmark_processing, data>>
  /\ Return(j, "Err")
  /\ UNCHANGED <<local, outcome>>

(* job(repo).await, for any job closure: it never touches a processing     *)
(* flag and ends Ok(value) or Err(()).  What the closure of a              *)
(* Category-Match does to products and categories is                       *)
(* process_product_category_match below.                                   *)
guard_job(j) ==
  /\ pc[j] = "job"
  /\ \E r \in {"Ok", "Err"} : outcome' = [outcome EXCEPT ![j] = r]
  /\ Mark(j, "job_started")
  /\ Goto(j, "reset_crawlers")
  /\ UNCHANGED <<db, local, result>>

(* Mutant: a failed job body propagates (job()?) past the two resets.      *)
guard_reset_crawlers_after_ok_only(j) ==
  /\ pc[j] = "reset_crawlers"
  /\ \/ /\ outcome[j] = "Err"
        /\ Return(j, "Err")
        /\ UNCHANGED <<db, local, outcome, events>>
     \/ /\ outcome[j] = "Ok"
        /\ crawler_processing' = set_hub_crawlers_processing(Message[j].hub_id, FALSE)
        /\ Mark(j, "set_hub_crawlers_processing(false)")
        /\ Goto(j, "reset_benchmarks")
        /\ UNCHANGED <<benchmark_processing, data, local, outcome, result>>

guard_reset_crawlers(j) ==
  /\ pc[j] = "reset_crawlers"
  /\ \/ /\ Mark(j, "set_hub_crawlers_processing(false)->err")
        /\ UNCHANGED db
     \/ /\ crawler_processing' = set_hub_crawlers_processing(Message[j].hub_id, FALSE)
        /\ Mark(j, "set_hub_crawlers_processing(false)")
        /\ UNCHANGED <<benchmark_processing, data>>
  /\ Goto(j, "reset_benchmarks")
  /\ UNCHANGED <<local, outcome, result>>

guard_reset_benchmarks(j) ==
  /\ pc[j] = "reset_benchmarks"
  /\ \/ /\ Mark(j, "set_hub_benchmarks_processing(false)->err")
        /\ UNCHANGED db
     \/ /\ benchmark_processing' = set_hub_benchmarks_processing(Message[j].hub_id, FALSE)
        /\ Mark(j, "set_hub_benchmarks_processing(false)")
        /\ UNCHANGED <<crawler_processing, data>>
  /\ Return(j, outcome[j])
  /\ UNCHANGED <<local, outcome>>

(* The guard around any job closure.                                        *)
run_with_hub_processing_guard(j) ==
  \/ guard_check_crawlers(j)
  \/ guard_check_benchmarks(j)
  \/ guard_set_crawlers(j)
  \/ guard_set_benchmarks(j)
  \/ guard_rollback(j)
  \/ guard_job(j)
  \/ guard_reset_crawlers(j)
  \/ guard_reset_benchmarks(j)

(***************************************************************************)
(* Repository: benchmarks and products as the Benchmark job uses them      *)
(* (repository/benchmark.rs, repository/crawler.rs, repository/product.rs) *)
(***************************************************************************)
(* A product row as a crawl of a valid page stores it: not yet assigned a  *)
(* category (category_id 0 is NULL).                                       *)
Product(id, crawler_id, url, embedding) ==
  [id |-> id, crawler_id |-> crawler_id, url |-> url,
   sku |-> "S1", name |-> "Tea", price |-> 10, amount |-> 100,
   embedding |-> embedding,
   category_id |-> 0, category_assignment_source |-> "automatic",
   updated_at |-> 0]

RECURSIVE ascending(_)
ascending(S) ==
  IF S = {} THEN <<>>
  ELSE LET m == CHOOSE x \in S : \A y \in S : x <= y
       IN  <<m>> \o ascending(S \ {m})

list_crawlers(hub_id) == ascending({c \in Crawlers : crawler_hub_id[c] = hub_id})

list_products(crawler_id) ==
  LET rows == {r \in products : r.crawler_id = crawler_id}
      ids  == ascending({r.id : r \in rows})
  IN  [i \in 1..Len(ids) |-> CHOOSE r \in rows : r.id = ids[i]]

set_benchmark_processing(benchmark_id, processing) ==
  [benchmark_processing EXCEPT ![benchmark_id] = processing]

(* Mutant: the update matches no row, the embedding is not stored.        *)
set_product_embedding_dropped(product_id) == products

set_product_embedding(product_id) ==
  {IF r.id = product_id THEN [r EXCEPT !.embedding = TRUE] ELSE r : r \in products}

remove_benchmark_associations(benchmark_id) ==
  {a \in product_benchmark : a.benchmark_id # benchmark_id}

(* Cosine distance, in hundredths, between a benchmark's embedding and the *)
(* embedding of the product text found at a url.                           *)
(* Texts at odd urls (5, 6, 7, ...) are near the benchmark's, texts at     *)
(* even urls (25, 30, ...) are far from it.                                *)
cosine_distance(url) ==
  IF url % 2 = 1 THEN 5 + url \div 2 ELSE 20 + 5 * (url \div 2)

TopK == 10

SIMILARITY_THRESHOLD == 80

RECURSIVE nearest(_, _)
nearest(items, k) ==
  IF items = {} \/ k = 0 THEN <<>>
  ELSE LET best == CHOOSE x \in items : \A y \in items :
                     x[2] < y[2] \/ (x[2] = y[2] /\ x[1] <= y[1])
       IN  <<best>> \o nearest(items \ {best}, k - 1)

(* Mutant: the search returns every candidate, however many.               *)
search_all(product_embeddings) ==
  nearest({<<product_embeddings[i][1], cosine_distance(product_embeddings[i][2])>> :
             i \in DOMAIN product_embeddings}, Len(product_embeddings))

(* search_top_10: the keys and distances of the 10 nearest candidates,     *)
(* nearest first.  A candidate is (product id, url of the embedded text).  *)
search_top_10(product_embeddings) ==
  nearest({<<product_embeddings[i][1], cosine_distance(product_embeddings[i][2])>> :
             i \in DOMAIN product_embeddings}, TopK)

(***************************************************************************)
(* process_benchmark_message and process_benchmark                         *)
(* (processing/benchmark.rs).                                              *)
(***************************************************************************)
(* Mutant: a failed step returns from process_benchmark_message itself.    *)
AbortMessage(j, step) ==
  /\ outcome' = [outcome EXCEPT ![j] = "Err"]
  /\ local' = [local EXCEPT ![j].failed = step]
  /\ Return(j, "Err")
  /\ UNCHANGED db

Abort(j, step) ==
  /\ outcome' = [outcome EXCEPT ![j] = "Err"]
  /\ local' = [local EXCEPT ![j].failed = step]
  /\ Goto(j, "count_associations")
  /\ UNCHANGED <<db, result>>

AbortRead(j, step) == Abort(j, step) /\ UNCHANGED events

AbortWrite(j, step) == Abort(j, step) /\ Mark(j, step \o "->err")

(* Mutant: the loaded processing flag is not checked.                      *)
benchmark_get_unchecked(j) ==
  LET b == Message[j].benchmark_id IN
  /\ pc[j] = "start"
  /\ \/ /\ Return(j, "Err")
        /\ UNCHANGED <<db, local, outcome, events>>
     \/ /\ local' = [local EXCEPT ![j].benchmark_embedding = benchmark_embedding[b]]
        /\ Goto(j, "set_processing")
        /\ UNCHANGED <<db, outcome, result, events>>

benchmark_get(j) ==
  LET b == Message[j].benchmark_id IN
  /\ pc[j] = "start"
  /\ \/ /\ Return(j, "Err")                        \* get_benchmark fails
        /\ UNCHANGED <<db, local, outcome, events>>
     \/ /\ benchmark_processing[b]
        /\ Return(j, "AlreadyRunning")
        /\ UNCHANGED <<db, local, outcome, events>>
     \/ /\ ~benchmark_processing[b]
        /\ local' = [local EXCEPT ![j].benchmark_embedding = benchmark_embedding[b]]
        /\ Goto(j, "set_processing")
        /\ UNCHANGED <<db, outcome, result, events>>

benchmark_set_processing(j) ==
  LET b == Message[j].benchmark_id IN
  /\ pc[j] = "set_processing"
  /\ \/ /\ Mark(j, "set_benchmark_processing(true)->err")
        /\ Return(j, "Err")
        /\ UNCHANGED <<db, local, outcome>>
     \/ /\ benchmark_processing' = set_benchmark_processing(b, TRUE)
        /\ Mark(j, "set_benchmark_processing(true)")
        /\ Goto(j, "embedder")
        /\ UNCHANGED <<crawler_processing, data, local, outcome, result>>

benchmark_embedder(j) ==
  /\ pc[j] = "embedder"
  /\ \/ AbortRead(j, "TextEmbedding::try_new")
     \/ /\ Goto(j, "benchmark_embedding")
        /\ UNCHANGED <<db, local, outcome, result, events>>

benchmark_ensure_embedding(j) ==
  LET b == Message[j].benchmark_id IN
  /\ pc[j] = "benchmark_embedding"
  /\ \/ /\ local[j].benchmark_embedding
        /\ Goto(j, "list_crawlers")
        /\ UNCHANGED <<db, local, outcome, result, events>>
     \/ /\ ~local[j].benchmark_embedding
        /\ \/ AbortRead(j, "embed")
           \/ AbortWrite(j, "set_benchmark_embedding")
           \/ /\ benchmark_embedding' = [benchmark_embedding EXCEPT ![b] = TRUE]
              /\ Mark(j, "set_benchmark_embedding")
              /\ Goto(j, "list_crawlers")
              /\ UNCHANGED <<flags, crawler_stats, benchmark_stats, products,
                             next_product_id, product_benchmark, clock,
                             local, outcome, result, categories, pages, socket, product_images>>

benchmark_list_crawlers(j) ==
  LET b == Message[j].benchmark_id IN
  /\ pc[j] = "list_crawlers"
  /\ \/ AbortRead(j, "list_crawlers")
     \/ /\ local' = [local EXCEPT ![j].crawlers = list_crawlers(benchmark_hub_id[b])]
        /\ Goto(j, "remove_associations")
        /\ UNCHANGED <<db, outcome, result, events>>

benchmark_remove_associations(j) ==
  LET b == Message[j].benchmark_id IN
  /\ pc[j] = "remove_associations"
  /\ \/ AbortWrite(j, "remove_benchmark_associations")
     \/ /\ product_benchmark' = remove_benchmark_associations(b)
        /\ Mark(j, "remove_benchmark_associations")
        /\ Goto(j, "list_products")
        /\ UNCHANGED <<flags, crawler_stats, benchmark_embedding, benchmark_stats,
                       products, next_product_id, clock, local, outcome, result, categories, pages, socket, product_images>>

benchmark_list_products(j) ==
  /\ pc[j] = "list_products"
  /\ \/ /\ local[j].crawlers = <<>>               \* the loop over crawlers ends
        /\ outcome' = [outcome EXCEPT ![j] = "Ok"]
        /\ Goto(j, "count_associations")
        /\ UNCHANGED <<db, local, result, events>>
     \/ /\ local[j].crawlers # <<>>
        /\ \/ AbortRead(j, "list_products")
           \/ /\ local' = [local EXCEPT
                   ![j].products = list_products(Head(local[j].crawlers)),
                   ![j].product_embeddings = <<>>]
              /\ Goto(j, "product_embedding")
              /\ UNCHANGED <<db, outcome, result, events>>

(* The leading products of the list that carry their embedding: the loop   *)
(* passes them without a repository call.                                  *)
RECURSIVE embedded_prefix(_)
embedded_prefix(list) ==
  IF list = <<>> \/ ~Head(list).embedding THEN 0
  ELSE 1 + embedded_prefix(Tail(list))

benchmark_product_embedding(j) ==
  /\ pc[j] = "product_embedding"
  /\ \/ /\ local[j].products = <<>>               \* the loop over products ends
        /\ \/ AbortRead(j, "search_top_10")
           \/ /\ local' = [local EXCEPT
                   ![j].top = search_top_10(local[j].product_embeddings)]
              /\ Goto(j, "set_association")
              /\ UNCHANGED <<db, outcome, result, events>>
     \/ /\ local[j].products # <<>>
        /\ LET product == Head(local[j].products)
               push == [local EXCEPT
                          ![j].products = Tail(@),
                          ![j].product_embeddings = Append(@, <<product.id, product.url>>)]
               n == embedded_prefix(local[j].products)
           IN  \/ /\ product.embedding
                  /\ local' = [local EXCEPT
                       ![j].products = SubSeq(@, n + 1, Len(@)),
                       ![j].product_embeddings = @ \o
                         [i \in 1..n |-> <<local[j].products[i].id,
                                            local[j].products[i].url>>]]
                  /\ UNCHANGED <<db, pc, outcome, result, events>>
               \/ /\ ~product.embedding
                  /\ \/ AbortRead(j, "embed")
                     \/ AbortWrite(j, "set_product_embedding")
                     \/ /\ products' = set_product_embedding(product.id)
                        /\ Mark(j, "set_product_embedding")
                        /\ local' = push
                        /\ UNCHANGED <<flags, crawler_stats, benchmark_embedding,
                                       benchmark_stats, next_product_id,
                                       product_benchmark, clock, pc, outcome, result, categories, pages, socket, product_images>>

(* Mutant: the threshold is not applied to the search results.            *)
benchmark_set_association_unfiltered(j) ==
  LET b == Message[j].benchmark_id IN
  /\ pc[j] = "set_association"
  /\ \/ /\ local[j].top = <<>>                    \* next crawler
        /\ local' = [local EXCEPT ![j].crawlers = Tail(@)]
        /\ Goto(j, "list_products")
        /\ UNCHANGED <<db, outcome, result, events>>
     \/ /\ local[j].top # <<>>
        /\ LET key == Head(local[j].top)[1]
               distance == 100 - Head(local[j].top)[2]
               pop == [local EXCEPT ![j].top = Tail(@)]
           IN  \/ /\ distance < 0
                  /\ local' = pop
                  /\ UNCHANGED <<db, pc, outcome, result, events>>
               \/ /\ distance >= 0
                  /\ \/ AbortWrite(j, "set_benchmark_association")
                     \/ /\ ~\E a \in product_benchmark :
                               a.benchmark_id = b /\ a.product_id = key
                        /\ product_benchmark' = product_benchmark \cup
                             {[benchmark_id |-> b, product_id |-> key,
                               distance |-> distance]}
                        /\ Mark(j, "set_benchmark_association")
                        /\ local' = [pop EXCEPT ![j].inserted = @ \cup {key}]
                        /\ UNCHANGED <<flags, crawler_stats, benchmark_embedding,
                                       benchmark_stats, products, next_product_id,
                                       clock, pc, outcome, result, categories, pages, socket, product_images>>

benchmark_set_association(j) ==
  LET b == Message[j].benchmark_id IN
  /\ pc[j] = "set_association"
  /\ \/ /\ local[j].top = <<>>                    \* next crawler
        /\ local' = [local EXCEPT ![j].crawlers = Tail(@)]
        /\ Goto(j, "list_products")
        /\ UNCHANGED <<db, outcome, result, events>>
     \/ /\ local[j].top # <<>>
        /\ LET key == Head(local[j].top)[1]
               distance == 100 - Head(local[j].top)[2]
               pop == [local EXCEPT ![j].top = Tail(@)]
           IN  \/ /\ distance < SIMILARITY_THRESHOLD
                  /\ local' = pop
                  /\ UNCHANGED <<db, pc, outcome, result, events>>
               \/ /\ distance >= SIMILARITY_THRESHOLD
                  /\ \/ AbortWrite(j, "set_benchmark_association")
                     \/ /\ ~\E a \in product_benchmark :
                               a.benchmark_id = b /\ a.product_id = key
                        /\ product_benchmark' = product_benchmark \cup
                             {[benchmark_id |-> b, product_id |-> key,
                               distance |-> distance]}
                        /\ Mark(j, "set_benchmark_association")
                        /\ local' = [pop EXCEPT ![j].inserted = @ \cup {key}]
                        /\ UNCHANGED <<flags, crawler_stats, benchmark_embedding,
                                       benchmark_stats, products, next_product_id,
                                       clock, pc, outcome, result, categories, pages, socket, product_images>>

(* update_benchmark_stats: a count query, then an update, on one           *)
(* connection without a transaction.                                       *)
benchmark_count_associations(j) ==
  LET b == Message[j].benchmark_id IN
  /\ pc[j] = "count_associations"
  /\ \/ /\ Mark(j, "update_benchmark_stats->err")
        /\ Return(j, "Finished")
        /\ UNCHANGED <<db, local, outcome>>
     \/ /\ local' = [local EXCEPT ![j].product_count =
                       Cardinality({a \in product_benchmark : a.benchmark_id = b})]
        /\ Goto(j, "update_stats")
        /\ UNCHANGED <<db, outcome, result, events>>

benchmark_update_stats(j) ==
  LET b == Message[j].benchmark_id IN
  /\ pc[j] = "update_stats"
  /\ \/ /\ Mark(j, "update_benchmark_stats->err")
        /\ UNCHANGED db
     \/ /\ clock' = clock + 1
        /\ benchmark_stats' = [benchmark_stats EXCEPT ![b] =
             [num_products |-> local[j].product_count, updated_at |-> clock + 1]]
        /\ benchmark_processing' = set_benchmark_processing(b, FALSE)
        /\ Mark(j, "update_benchmark_stats")
        /\ UNCHANGED <<crawler_processing, crawler_stats, benchmark_embedding,
                       products, next_product_id, product_benchmark, categories, pages, socket, product_images>>
  /\ Return(j, "Finished")
  /\ UNCHANGED <<local, outcome>>

process_benchmark(j) ==
  \/ benchmark_embedder(j)
  \/ benchmark_ensure_embedding(j)
  \/ benchmark_list_crawlers(j)
  \/ benchmark_remove_associations(j)
  \/ benchmark_list_products(j)
  \/ benchmark_product_embedding(j)
  \/ benchmark_set_association(j)

process_benchmark_message(j) ==
  \/ benchmark_get(j)
  \/ benchmark_set_processing(j)
  \/ process_benchmark(j)
  \/ benchmark_count_associations(j)
  \/ benchmark_update_stats(j)

(***************************************************************************)
(* process_product_category_match (processing/category.rs), the job        *)
(* closure of a Category-Match, with the category writers of               *)
(* repository/category.rs.                                                 *)
(***************************************************************************)
list_categories(hub_id) ==
  LET rows == {c \in categories : c.hub_id = hub_id}
      ids  == ascending({c.id : c \in rows})
  IN  [i \in 1..Len(ids) |-> CHOOSE c \in rows : c.id = ids[i]]

set_category_embedding(category_id) ==
  {IF c.id = category_id THEN [c EXCEPT !.embedding = TRUE] ELSE c : c \in categories}

(* Mutant: the update lacks the filter on category_assignment_source.      *)
set_product_category_unfiltered(product_id, category_id, now) ==
  {IF p.id = product_id
     THEN [p EXCEPT !.category_id = category_id,
                    !.category_assignment_source = "automatic",
                    !.updated_at = now]
     ELSE p : p \in products}

(* category_id 0 is None: the column is set to NULL.                       *)
set_product_category_automatic(product_id, category_id, now) ==
  {IF p.id = product_id /\ p.category_assignment_source # "manual"
     THEN [p EXCEPT !.category_id = category_id,
                    !.category_assignment_source = "automatic",
                    !.updated_at = now]
     ELSE p : p \in products}

clear_product_categories_by_crawler(crawler_id, now) ==
  {IF p.crawler_id = crawler_id /\ p.category_assignment_source # "manual"
     THEN [p EXCEPT !.category_id = 0,
                    !.category_assignment_source = "automatic",
                    !.updated_at = now]
     ELSE p : p \in products}

(* Cosine distance, in hundredths, between the text of the product at a    *)
(* url and the name of a category.                                         *)
category_distance(url, category_id) ==
  IF (url + category_id) % 2 = 0 THEN 10 + category_id ELSE 30 + category_id

(* Mutant: the search over an empty directory returns a stale candidate.   *)
search_top_k_stale(url, category_embeddings, k) ==
  IF category_embeddings = <<>> THEN <<<<1, 0>>>>
  ELSE nearest({<<category_embeddings[i], category_distance(url, category_embeddings[i])>> :
                  i \in DOMAIN category_embeddings}, k)

(* Mutant: the items come back in the order given, not by distance.        *)
search_top_k_unordered(url, category_embeddings, k) ==
  IF category_embeddings = <<>> \/ k = 0 THEN <<>>
  ELSE [i \in 1..(IF k < Len(category_embeddings) THEN k ELSE Len(category_embeddings)) |->
          <<category_embeddings[i], category_distance(url, category_embeddings[i])>>]

(* search_top_k of the product's embedding among the category embeddings.  *)
search_top_k(url, category_embeddings, k) ==
  IF category_embeddings = <<>> \/ k = 0 THEN <<>>
  ELSE nearest({<<category_embeddings[i], category_distance(url, category_embeddings[i])>> :
                  i \in DOMAIN category_embeddings}, k)

(* The category the search result assigns: the nearest one when its        *)
(* similarity reaches the threshold, else none (0).                        *)
assigned_category(results) ==
  IF results = <<>> THEN 0
  ELSE IF 100 - results[1][2] < SIMILARITY_THRESHOLD THEN 0
  ELSE results[1][1]

(* Mutant: a candidate below the threshold is not counted as skipped.       *)
skipped_uncounted(results) ==
  IF results = <<>> THEN "skipped_no_category_candidate"
  ELSE IF 100 - results[1][2] < SIMILARITY_THRESHOLD THEN ""
  ELSE IF results[1][1] <= 0 THEN "skipped_invalid_category_id"
  ELSE ""

(* The counter of MatchStats the search result adds to when it assigns no  *)
(* category, "" when it assigns one.  i32::try_from and CategoryId::new    *)
(* take the positive ids.                                                  *)
skipped(results) ==
  IF results = <<>> THEN "skipped_no_category_candidate"
  ELSE IF 100 - results[1][2] < SIMILARITY_THRESHOLD THEN "skipped_below_threshold"
  ELSE IF results[1][1] <= 0 THEN "skipped_invalid_category_id"
  ELSE ""

MatchAbort(j) ==
  /\ outcome' = [outcome EXCEPT ![j] = "Err"]
  /\ Goto(j, "reset_crawlers")
  /\ UNCHANGED <<db, local, result>>

(* TextEmbedding::try_new, then list_crawlers.                             *)
match_list_crawlers(j) ==
  /\ pc[j] = "job"
  /\ \/ MatchAbort(j) /\ Mark(j, "job_started")
     \/ /\ local' = [local EXCEPT ![j].crawlers = list_crawlers(Message[j].hub_id),
                                  ![j].products = <<>>]
        /\ Mark(j, "job_started")
        /\ Goto(j, "match_list_products")
        /\ UNCHANGED <<db, outcome, result>>

match_list_products(j) ==
  /\ pc[j] = "match_list_products"
  /\ \/ /\ local[j].crawlers = <<>>
        /\ local' = [local EXCEPT ![j].products_loaded = Len(local[j].products)]
        /\ Goto(j, "match_list_categories")
        /\ UNCHANGED <<db, outcome, result, events>>
     \/ /\ local[j].crawlers # <<>>
        /\ \/ MatchAbort(j) /\ UNCHANGED events
           \/ /\ local' = [local EXCEPT
                   ![j].products = @ \o list_products(Head(local[j].crawlers)),
                   ![j].crawlers = Tail(@)]
              /\ UNCHANGED <<db, pc, outcome, result, events>>

match_list_categories(j) ==
  /\ pc[j] = "match_list_categories"
  /\ \/ MatchAbort(j) /\ UNCHANGED events
     \/ /\ local' = [local EXCEPT
             ![j].categories = list_categories(Message[j].hub_id),
             ![j].categories_loaded = Len(list_categories(Message[j].hub_id)),
             ![j].category_embeddings = <<>>]
        /\ Goto(j, "match_category_embedding")
        /\ UNCHANGED <<db, outcome, result, events>>

(* load_or_generate_embedding for each category.                           *)
match_category_embedding(j) ==
  /\ pc[j] = "match_category_embedding"
  /\ \/ /\ local[j].categories = <<>>
        /\ Goto(j, "match_product")
        /\ UNCHANGED <<db, local, outcome, result, events>>
     \/ /\ local[j].categories # <<>>
        /\ LET category == Head(local[j].categories)
               push == [local EXCEPT
                          ![j].categories = Tail(@),
                          ![j].category_embeddings = Append(@, category.id)]
           IN  \/ /\ category.embedding
                  /\ local' = push
                  /\ UNCHANGED <<db, pc, outcome, result, events>>
               \/ /\ ~category.embedding
                  /\ \/ MatchAbort(j) /\ UNCHANGED events
                     \/ MatchAbort(j) /\ Mark(j, "set_category_embedding->err")
                     \/ /\ categories' = set_category_embedding(category.id)
                        /\ Mark(j, "set_category_embedding")
                        /\ local' = push
                        /\ UNCHANGED <<flags, crawler_stats, benchmark_embedding,
                                       benchmark_stats, products, next_product_id,
                                       product_benchmark, pages, socket, product_images, clock, pc, outcome, result>>

(* One product of the loop: load_or_generate_embedding, and then the top-1 *)
(* search and set_product_category_automatic.                              *)
match_product(j) ==
  /\ pc[j] = "match_product"
  /\ \/ /\ local[j].products = <<>>
        /\ outcome' = [outcome EXCEPT ![j] = "Ok"]
        /\ Goto(j, "reset_crawlers")
        /\ UNCHANGED <<db, local, result, events>>
     \/ /\ local[j].products # <<>>
        /\ LET product == Head(local[j].products)
               results == search_top_k(product.url, local[j].category_embeddings, 1)
               category_id == IF skipped(results) = "skipped_invalid_category_id"
                                THEN 0 ELSE assigned_category(results)
               counter == skipped(results)
           IN  \/ /\ ~product.embedding /\ ~local[j].generated
                  /\ \/ MatchAbort(j) /\ UNCHANGED events
                     \/ MatchAbort(j) /\ Mark(j, "set_product_embedding->err")
                     \/ /\ products' = set_product_embedding(product.id)
                        /\ Mark(j, "set_product_embedding")
                        /\ local' = [local EXCEPT ![j].generated = TRUE]
                        /\ UNCHANGED <<flags, crawler_stats, benchmark_embedding,
                                       benchmark_stats, next_product_id,
                                       product_benchmark, categories, pages, socket, product_images, clock,
                                       pc, outcome, result>>
               \/ /\ product.embedding \/ local[j].generated
                  /\ \/ MatchAbort(j) /\ UNCHANGED events
                     \/ MatchAbort(j) /\ Mark(j, "set_product_category_automatic->err")
                     \/ /\ products' = set_product_category_automatic(
                                         product.id, category_id, clock)
                        /\ Mark(j, "set_product_category_automatic")
                        /\ local' = [local EXCEPT
                             ![j].products = Tail(@),
                             ![j].generated = FALSE,
                             ![j].calls = @ \cup {<<product.id, category_id>>},
                             ![j].skipped_below_threshold =
                                IF counter = "skipped_below_threshold" THEN @ + 1 ELSE @,
                             ![j].skipped_invalid_category_id =
                                IF counter = "skipped_invalid_category_id" THEN @ + 1 ELSE @,
                             ![j].skipped_no_category_candidate =
                                IF counter = "skipped_no_category_candidate" THEN @ + 1 ELSE @,
                             ![j].matched = IF category_id # 0 THEN @ + 1 ELSE @,
                             ![j].unmatched = IF category_id = 0 THEN @ + 1 ELSE @]
                        /\ UNCHANGED <<flags, crawler_stats, benchmark_embedding,
                                       benchmark_stats, next_product_id,
                                       product_benchmark, categories, pages, socket, product_images, clock,
                                       pc, outcome, result>>

process_product_category_match(j) ==
  \/ match_list_crawlers(j)
  \/ match_list_products(j)
  \/ match_list_categories(j)
  \/ match_category_embedding(j)
  \/ match_product(j)

guard_steps(j) ==
  \/ guard_check_crawlers(j)
  \/ guard_check_benchmarks(j)
  \/ guard_set_crawlers(j)
  \/ guard_set_benchmarks(j)
  \/ guard_rollback(j)
  \/ guard_reset_crawlers(j)
  \/ guard_reset_benchmarks(j)

process_product_category_match_message(j) ==
  \/ guard_steps(j)
  \/ process_product_category_match(j)

(***************************************************************************)
(* process_crawler_message (processing/crawler.rs) with the product        *)
(* writers of repository/product.rs and the crawler writers of             *)
(* repository/crawler.rs.                                                  *)
(***************************************************************************)
get_crawler(selector) ==
  LET found == {c \in Crawlers : crawler_selector[c] = selector}
  IN  CHOOSE c \in found : \A d \in found : c <= d

set_crawler_processing(crawler_id, processing) ==
  [crawler_processing EXCEPT ![crawler_id] = processing]

(* The (selector, urls) pair process_crawler_message reads off the         *)
(* envelope: Selector(selector) carries no url list.                       *)
selector_urls(msg) ==
  IF msg.variant = "Selector" THEN <<>> ELSE msg.urls

(* Mutant: the branch is taken by the envelope's variant.                  *)
full_replace_by_variant(j) == Message[j].variant = "Selector"

(* The branch of process_crawler_message: urls.is_empty().                 *)
full_replace(j) == selector_urls(Message[j]) = <<>>

(***************************************************************************)
(* Product construction (crawlers/mod.rs).  An f64 is an integer or one of *)
(* the values NaN and Infinity; a string is "" or a word; url 0 is the     *)
(* empty url.                                                              *)
(***************************************************************************)
NaN == 0 - 1000

Infinity == 1000

is_finite(value) == value # NaN /\ value # Infinity

(* value > 0.0: false of NaN, true of Infinity.                            *)
is_positive(value) == value # NaN /\ value > 0

RawProduct(url, sku, name, price, amount) ==
  [url |-> url, sku |-> sku, name |-> name, price |-> price, amount |-> amount]

(* The field validators of pushkind_dantes::domain::types: they reject a   *)
(* non-finite, zero or negative number and an empty identifier.            *)
CrawlerId_new(crawler_id) == crawler_id > 0

ProductSku_new(sku) == sku # ""

ProductName_new(name) == name # ""

ProductPrice_new(price) == is_finite(price) /\ is_positive(price)

ProductUrl_new(url) == url # 0

ProductAmount_new(amount) == is_finite(amount) /\ is_positive(amount)

(* amount 0 is None.                                                       *)
NewProduct(crawler_id, raw, amount) ==
  [crawler_id |-> crawler_id, sku |-> raw.sku, name |-> raw.name,
   price |-> raw.price, amount |-> amount, url |-> raw.url]

(* Mutant: the price is not validated.                                     *)
build_new_product_unpriced(crawler_id, raw) ==
  IF ~CrawlerId_new(crawler_id) \/ ~ProductSku_new(raw.sku)
       \/ ~ProductName_new(raw.name) \/ ~ProductUrl_new(raw.url)
    THEN <<>>
    ELSE <<NewProduct(crawler_id, raw,
             IF is_finite(raw.amount) /\ is_positive(raw.amount) THEN raw.amount ELSE 0)>>

(* build_new_product: no product (<<>>) when a validator fails.  The       *)
(* amount goes through filter(is_finite && > 0) before its validator, so   *)
(* an amount that does not pass the filter becomes None.                   *)
build_new_product(crawler_id, raw) ==
  IF ~CrawlerId_new(crawler_id) THEN <<>>
  ELSE IF ~ProductSku_new(raw.sku) THEN <<>>
  ELSE IF ~ProductName_new(raw.name) THEN <<>>
  ELSE IF ~ProductPrice_new(raw.price) THEN <<>>
  ELSE IF ~ProductUrl_new(raw.url) THEN <<>>
  ELSE IF is_finite(raw.amount) /\ is_positive(raw.amount)
         THEN IF ProductAmount_new(raw.amount)
                THEN <<NewProduct(crawler_id, raw, raw.amount)>>
                ELSE <<>>
         ELSE <<NewProduct(crawler_id, raw, 0)>>

(* The products built from the raw products `found`, one per url, in the   *)
(* order of their urls.                                                    *)
RECURSIVE built(_, _, _)
built(crawler_id, found, urls) ==
  IF urls = <<>> THEN <<>>
  ELSE build_new_product(crawler_id, CHOOSE raw \in found : raw.url = Head(urls))
         \o built(crawler_id, found, Tail(urls))

(* The pages of a store whose products are all well-formed, and those of a *)
(* store that also serves a product without an amount and one without a    *)
(* price.                                                                  *)
ValidPages == {RawProduct(url, "S1", "Tea", 10, 100) : url \in Urls}

CrawlPages ==
  ValidPages \cup {RawProduct(1, "S2", "Tea", 25, 0), RawProduct(2, "S3", "Tea", NaN, 100)}

(* Every raw product over a small range of each field.                     *)
Floats == {NaN, Infinity, 0 - 5, 0, 25}

RawSpace ==
  {RawProduct(url, sku, name, price, amount) :
     url \in {0, 1}, sku \in {"", "S2"}, name \in {"", "Tea"},
     price \in Floats, amount \in Floats}

OnePerUrl(found) == \A a, b \in found : a.url = b.url => a = b

(***************************************************************************)
(* Product writers (repository/product.rs).                                *)
(***************************************************************************)
NewRow(id, new, now) ==
  [id |-> id, crawler_id |-> new.crawler_id, url |-> new.url,
   sku |-> new.sku, name |-> new.name, price |-> new.price, amount |-> new.amount,
   embedding |-> FALSE,
   category_id |-> 0, category_assignment_source |-> "automatic",
   updated_at |-> now]

(* The insert of create_products hits the key (crawler_id, url).           *)
Conflict(rows, new) ==
  \E r \in rows : r.crawler_id = new.crawler_id /\ r.url = new.url

RECURSIVE insert_products(_, _, _, _)
insert_products(rows, new, id, now) ==
  IF new = <<>> THEN rows
  ELSE insert_products(rows \cup {NewRow(id, Head(new), now)}, Tail(new), id + 1, now)

(* Mutant: a plain insert, with no conflict target.                        *)
RECURSIVE upsert_products_always_insert(_, _, _, _)
upsert_products_always_insert(rows, new, id, now) ==
  IF new = <<>> THEN [rows |-> rows, next_id |-> id]
  ELSE upsert_products_always_insert(
         rows \cup {NewRow(id, Head(new), now)}, Tail(new), id + 1, now)

(* Mutant: the whole table takes the new timestamp.                        *)
RECURSIVE upsert_products_touch_all(_, _, _, _)
upsert_products_touch_all(rows, new, id, now) ==
  IF new = <<>> THEN [rows |-> rows, next_id |-> id]
  ELSE IF Conflict(rows, Head(new))
       THEN upsert_products_touch_all(
              {IF r.crawler_id = Head(new).crawler_id
                 THEN [r EXCEPT !.updated_at = now] ELSE r : r \in rows},
              Tail(new), id, now)
       ELSE upsert_products_touch_all(
              rows \cup {NewRow(id, Head(new), now)}, Tail(new), id + 1, now)

(* Upsert by (crawler_id, url): on a conflict the row keeps its id, its    *)
(* embedding and its category and takes the new fields and updated_at; a   *)
(* new row takes the next id.                                              *)
RECURSIVE upsert_products(_, _, _, _)
upsert_products(rows, new, id, now) ==
  IF new = <<>> THEN [rows |-> rows, next_id |-> id]
  ELSE IF Conflict(rows, Head(new))
       THEN upsert_products(
              {IF r.crawler_id = Head(new).crawler_id /\ r.url = Head(new).url
                 THEN [r EXCEPT !.sku = Head(new).sku, !.name = Head(new).name,
                                !.price = Head(new).price, !.amount = Head(new).amount,
                                !.updated_at = now]
                 ELSE r : r \in rows},
              Tail(new), id, now)
       ELSE upsert_products(
              rows \cup {NewRow(id, Head(new), now)}, Tail(new), id + 1, now)

(* Mutant: the associations of the deleted products are left behind.       *)
delete_products_only(crawler_id) ==
  [products |-> {p \in products : p.crawler_id # crawler_id},
   product_benchmark |-> product_benchmark]

(* delete_products: one transaction deleting the crawler's products and    *)
(* the associations that reference them.                                   *)
delete_products(crawler_id) ==
  LET ids == {p.id : p \in {r \in products : r.crawler_id = crawler_id}}
  IN  [products |-> {p \in products : p.crawler_id # crawler_id},
       product_benchmark |-> {a \in product_benchmark : a.product_id \notin ids}]

crawler_get(j) ==
  LET selector == Message[j].selector
      crawler == get_crawler(selector) IN
  /\ pc[j] = "start"
  /\ \/ /\ Return(j, "Err")                        \* get_crawler fails
        /\ UNCHANGED <<db, local, outcome, events>>
     \/ /\ crawler_processing[crawler]
        /\ Return(j, "AlreadyRunning")
        /\ UNCHANGED <<db, local, outcome, events>>
     \/ /\ ~crawler_processing[crawler]
        /\ selector \notin {"rusteaco", "101tea"}
        /\ Return(j, "UnknownCrawler")
        /\ UNCHANGED <<db, local, outcome, events>>
     \/ /\ ~crawler_processing[crawler]
        /\ selector \in {"rusteaco", "101tea"}
        /\ local' = [local EXCEPT ![j].crawler_id = crawler]
        /\ Goto(j, "set_processing")
        /\ UNCHANGED <<db, outcome, result, events>>

(* A failure to set the flag is logged and the crawl goes on.              *)
crawler_set_processing(j) ==
  /\ pc[j] = "set_processing"
  /\ \/ /\ Mark(j, "set_crawler_processing(true)->err")
        /\ UNCHANGED db
     \/ /\ crawler_processing' = set_crawler_processing(local[j].crawler_id, TRUE)
        /\ Mark(j, "set_crawler_processing(true)")
        /\ UNCHANGED <<benchmark_processing, data>>
  /\ Goto(j, IF full_replace(j) THEN "delete_products" ELSE "get_product")
  /\ UNCHANGED <<local, outcome, result>>

crawler_delete_products(j) ==
  LET deleted == delete_products(local[j].crawler_id) IN
  /\ pc[j] = "delete_products"
  /\ \/ /\ Mark(j, "delete_products->err")
        /\ Return(j, "Err")
        /\ UNCHANGED <<db, local, outcome>>
     \/ /\ product_benchmark' = deleted.product_benchmark
        /\ products' = deleted.products
        /\ Mark(j, "delete_products")
        /\ Goto(j, "get_products")
        /\ UNCHANGED <<flags, crawler_stats, benchmark_embedding, benchmark_stats,
                       next_product_id, clock, local, outcome, result, categories, pages, socket, product_images>>

(* web_crawler.get_products().await: the store serves some of its pages,   *)
(* the products built from them are kept one per url.                      *)
crawler_get_products(j) ==
  /\ pc[j] = "get_products"
  /\ \E found \in SUBSET pages :
       /\ OnePerUrl(found)
       /\ local' = [local EXCEPT
            ![j].raw = found,
            ![j].fetched = built(local[j].crawler_id, found,
                                 ascending({raw.url : raw \in found}))]
  /\ Goto(j, "create_products")
  /\ UNCHANGED <<db, outcome, result, events>>

(* create_products: one transaction of plain inserts, with the current     *)
(* time as updated_at; an empty list writes nothing.                       *)
crawler_create_products(j) ==
  LET new == local[j].fetched IN
  /\ pc[j] = "create_products"
  /\ \/ /\ new # <<>>                              \* the transaction fails
        /\ Mark(j, "create_products->err")
        /\ UNCHANGED db
     \/ /\ \A i \in DOMAIN new : ~Conflict(products, new[i])
        /\ products' = insert_products(products, new, next_product_id, clock + 1)
        /\ next_product_id' = next_product_id + Len(new)
        /\ clock' = clock + 1
        /\ Mark(j, "create_products")
        /\ UNCHANGED <<flags, crawler_stats, benchmark_embedding, benchmark_stats,
                       product_benchmark, categories, pages, socket, product_images>>
  /\ Goto(j, "count_products")
  /\ UNCHANGED <<local, outcome, result>>

(* join_all(get_product(url)) over the envelope's urls: each url yields a  *)
(* product or nothing.                                                     *)
crawler_get_product(j) ==
  LET urls == selector_urls(Message[j]) IN
  /\ pc[j] = "get_product"
  /\ \E found \in SUBSET {raw \in pages : \E i \in DOMAIN urls : raw.url = urls[i]} :
       /\ OnePerUrl(found)
       /\ local' = [local EXCEPT
            ![j].raw = found,
            ![j].fetched = built(local[j].crawler_id, found,
                                 ascending({raw.url : raw \in found}))]
  /\ Goto(j, "update_products")
  /\ UNCHANGED <<db, outcome, result, events>>

(* update_products: one transaction of upserts, with the current time as   *)
(* updated_at.                                                             *)
crawler_update_products(j) ==
  LET up == upsert_products(products, local[j].fetched, next_product_id, clock + 1) IN
  /\ pc[j] = "update_products"
  /\ \/ /\ Mark(j, "update_products->err")
        /\ UNCHANGED db
     \/ /\ products' = up.rows
        /\ next_product_id' = up.next_id
        /\ clock' = clock + 1
        /\ Mark(j, "update_products")
        /\ UNCHANGED <<flags, crawler_stats, benchmark_embedding, benchmark_stats,
                       product_benchmark, categories, pages, socket, product_images>>
  /\ Goto(j, "count_products")
  /\ UNCHANGED <<local, outcome, result>>

(***************************************************************************)
(* get_products (crawlers/rusteaco.rs, crawlers/tea101.rs): four stages of *)
(* fetch tasks, each stage joined before the next is launched, every fetch *)
(* behind the crawler's semaphore.  The tasks, the permits and the stage   *)
(* are local to the Crawl job.  A url is <<"base">>, <<"category", c>>,    *)
(* <<"page", c, i>> or <<"product", u>>.                                   *)
(***************************************************************************)
(* WebstoreCrawler...::new(5, crawler.id): the semaphore's permits.        *)
Concurrency == 5

SiteCategories == {1, 2}

(* What the pagination block of a category page may hold.  Category 2 has  *)
(* LastPage numbered pages.                                                *)
LastPage == 5

Pagination(c) ==
  IF c = 1
    THEN {[kind |-> "no_block", last |-> 0], [kind |-> "no_links", last |-> 0],
          [kind |-> "unparsable", last |-> 0], [kind |-> "numbered", last |-> 1]}
    ELSE {[kind |-> "numbered", last |-> LastPage]}

(* The product links a listing page shows.                                 *)
ProductLinks(url) ==
  IF url[1] = "category" THEN <<<<"product", 1>>>>
  ELSE <<<<"product", 1 + (url[3] % MaxUrl)>>>>

(* The variants a product page may show: the raw products served at the    *)
(* url, in any order.                                                      *)
Variants(u) ==
  LET at == {raw \in pages : raw.url = u} IN
  {<<>>} \cup {<<raw>> : raw \in at}
         \cup {pair \in at \X at : pair[1] # pair[2]}

Task(stage, url) ==
  [stage |-> stage, url |-> url, state |-> "waiting", result |-> <<>>]

RECURSIVE flatten(_)
flatten(lists) ==
  IF lists = <<>> THEN <<>> ELSE Head(lists) \o flatten(Tail(lists))

RECURSIVE build_variants(_, _)
build_variants(crawler_id, variants) ==
  IF variants = <<>> THEN <<>>
  ELSE build_new_product(crawler_id, Head(variants))
         \o build_variants(crawler_id, Tail(variants))

(* Mutant: products.retain keeping the last record of a url.               *)
RECURSIVE retain_last(_)
retain_last(list) ==
  IF list = <<>> THEN <<>>
  ELSE IF \E i \in 2..Len(list) : list[i].url = Head(list).url
         THEN retain_last(Tail(list))
         ELSE <<Head(list)>> \o retain_last(Tail(list))

(* products.retain(|p| seen_urls.insert(p.url.clone())): the first record  *)
(* of every url stays.                                                     *)
RECURSIVE retain(_, _)
retain(list, seen_urls) ==
  IF list = <<>> THEN <<>>
  ELSE IF Head(list).url \in seen_urls
         THEN retain(Tail(list), seen_urls)
         ELSE <<Head(list)>> \o retain(Tail(list), seen_urls \cup {Head(list).url})

retain_first(list) == retain(list, {})

(* get_page_links: nothing when the fetch failed; else the category url,   *)
(* followed by pages 2..=last when the last pagination link is a number.   *)
get_page_links(url, fetched, pagination) ==
  IF ~fetched THEN <<>>
  ELSE IF pagination.kind # "numbered" THEN <<url>>
  ELSE <<url>> \o [i \in 1..(pagination.last - 1) |-> <<"page", url[2], i + 1>>]

in_flight(tasks) == {t \in DOMAIN tasks : tasks[t].state = "in_flight"}

(* Mutant: the join returns when one future of the batch is ready.         *)
join_any(tasks, stage) ==
  \E t \in DOMAIN tasks : tasks[t].stage = stage /\ tasks[t].state = "done"

(* join_all: every future of the batch is ready.                           *)
join_all(tasks, stage) ==
  \A t \in DOMAIN tasks : tasks[t].stage = stage => tasks[t].state = "done"

(* Mutant: acquire does not wait for a permit.                             *)
acquire_unchecked(permits) == TRUE

(* semaphore.acquire().await is ready.                                     *)
acquire(permits) == permits > 0

(* Mutant: the permit is kept when fetch_html leaves by a `?` or `return`. *)
drop_permit_on_success(permits, exit) ==
  IF exit = "ok" THEN permits + 1 ELSE permits

(* _permit goes out of scope when fetch_html returns, whichever way.       *)
drop_permit(permits, exit) == permits + 1

FetchOutcomes == {"ok", "status", "send", "body"}

(* What a task's function makes of its fetched page.                       *)
task_results(j, task, exit) ==
  IF task.stage = 1
    THEN IF exit = "ok"
           THEN {[i \in 1..Cardinality(SiteCategories) |-> <<"category", i>>]}
           ELSE {<<>>}
  ELSE IF task.stage = 2
    THEN {get_page_links(task.url, exit = "ok", pagination) :
            pagination \in Pagination(task.url[2])}
  ELSE IF task.stage = 3
    THEN IF exit = "ok"
           THEN {ProductLinks(task.url)}
           ELSE {<<>>}
  ELSE IF exit = "ok"
    THEN {build_variants(local[j].crawler_id, variants) :
            variants \in Variants(task.url[2])}
    ELSE {<<>>}

(* fetch_html up to the permit: the task waits until acquire is ready.     *)
fetch_acquire(j) ==
  /\ pc[j] = "get_products_stages"
  /\ \E t \in DOMAIN local[j].tasks :
       /\ local[j].tasks[t].state = "waiting"
       /\ acquire(local[j].permits)
       /\ local' = [local EXCEPT ![j].tasks[t].state = "in_flight",
                                 ![j].permits = @ - 1]
  /\ UNCHANGED <<db, pc, outcome, result, events>>

(* fetch_html from the request to its return, and the rest of the task's   *)
(* function, which makes no further request.                               *)
fetch_return(j) ==
  /\ pc[j] = "get_products_stages"
  /\ \E t \in DOMAIN local[j].tasks : \E fetched \in FetchOutcomes :
       /\ local[j].tasks[t].state = "in_flight"
       /\ \E links \in task_results(j, local[j].tasks[t], fetched) :
            local' = [local EXCEPT
              ![j].tasks[t].state = "done",
              ![j].tasks[t].result = links,
              ![j].permits = drop_permit(@, fetched)]
  /\ UNCHANGED <<db, pc, outcome, result, events>>

stage_results(tasks, stage) ==
  flatten([i \in 1..Len(SelectSeq(tasks, LAMBDA task : task.stage = stage)) |->
             SelectSeq(tasks, LAMBDA task : task.stage = stage)[i].result])

range(list) == {list[i] : i \in DOMAIN list}

(* The orders in which a HashSet of links may be iterated.                 *)
orders(S) ==
  {list \in [1..Cardinality(S) -> S] : range(list) = S}

(* The batch of a stage is joined and the next stage's tasks are made, one *)
(* per input: per category, per page link, per unique product link.        *)
stage_join(j) ==
  LET stage == local[j].stage
      results == stage_results(local[j].tasks, stage) IN
  /\ pc[j] = "get_products_stages"
  /\ stage < 4
  /\ join_all(local[j].tasks, stage)
  /\ \E inputs \in IF stage = 3 THEN orders(range(results)) ELSE {results} :
       local' = [local EXCEPT
         ![j].stage = stage + 1,
         ![j].tasks = @ \o [i \in 1..Len(inputs) |-> Task(stage + 1, inputs[i])]]
  /\ UNCHANGED <<db, pc, outcome, result, events>>

(* The last batch is joined: flatten, keep one record per url, return.     *)
products_join(j) ==
  LET flattened == stage_results(local[j].tasks, 4) IN
  /\ pc[j] = "get_products_stages"
  /\ local[j].stage = 4
  /\ join_all(local[j].tasks, 4)
  /\ local' = [local EXCEPT ![j].flattened = flattened,
                            ![j].fetched = retain_first(flattened)]
  /\ Goto(j, "create_products")
  /\ UNCHANGED <<db, outcome, result, events>>

get_products(j) ==
  \/ fetch_acquire(j)
  \/ fetch_return(j)
  \/ stage_join(j)
  \/ products_join(j)

(* update_crawler_stats: a count query, then an update, on one connection  *)
(* without a transaction.                                                  *)
crawler_count_products(j) ==
  /\ pc[j] = "count_products"
  /\ \/ /\ Mark(j, "update_crawler_stats->err")
        /\ Return(j, "Finished")
        /\ UNCHANGED <<db, local, outcome>>
     \/ /\ local' = [local EXCEPT ![j].product_count =
                       Cardinality({p \in products : p.crawler_id = local[j].crawler_id})]
        /\ Goto(j, "update_stats")
        /\ UNCHANGED <<db, outcome, result, events>>

crawler_update_stats(j) ==
  LET c == local[j].crawler_id IN
  /\ pc[j] = "update_stats"
  /\ \/ /\ Mark(j, "update_crawler_stats->err")
        /\ UNCHANGED db
     \/ /\ clock' = clock + 1
        /\ crawler_stats' = [crawler_stats EXCEPT ![c] =
             [num_products |-> local[j].product_count, updated_at |-> clock + 1]]
        /\ crawler_processing' = set_crawler_processing(c, FALSE)
        /\ Mark(j, "update_crawler_stats")
        /\ UNCHANGED <<benchmark_processing, benchmark_embedding, benchmark_stats,
                       products, next_product_id, product_benchmark, categories, pages, socket, product_images>>
  /\ Return(j, "Finished")
  /\ UNCHANGED <<local, outcome>>

process_crawler_message(j) ==
  \/ crawler_get(j)
  \/ crawler_set_processing(j)
  \/ crawler_delete_products(j)
  \/ crawler_get_products(j)
  \/ crawler_create_products(j)
  \/ crawler_get_product(j)
  \/ crawler_update_products(j)
  \/ crawler_count_products(j)
  \/ crawler_update_stats(j)

(***************************************************************************)
(* The store when the worker starts, and the job tasks.                    *)
(***************************************************************************)
NoLocals ==
  [benchmark_embedding |-> FALSE, crawlers |-> <<>>, products |-> <<>>,
   product_embeddings |-> <<>>, top |-> <<>>, product_count |-> 0,
   crawler_id |-> 0, raw |-> {}, fetched |-> <<>>,
   permits |-> 0, stage |-> 0, tasks |-> <<>>, flattened |-> <<>>,
   query |-> 0, items |-> <<>>, k |-> 0, neighbors |-> <<>>,
   input |-> <<>>, parsed |-> <<>>,
   op |-> "", statements |-> <<>>, before |-> <<>>, tx |-> <<>>,
   existing_blob |-> <<>>, embedder_calls |-> 0, embedded |-> <<>>, vector |-> <<>>,
   persisted |-> <<>>, loaded |-> <<>>, used |-> <<>>, failed |-> "", inserted |-> {},
   categories |-> <<>>, category_embeddings |-> <<>>, generated |-> FALSE,
   products_loaded |-> 0, categories_loaded |-> 0, matched |-> 0,
   unmatched |-> 0, skipped_below_threshold |-> 0, skipped_invalid_category_id |-> 0,
   skipped_no_category_candidate |-> 0, calls |-> {}]

InitProducts ==
  {Product(1, 1, 1, TRUE), Product(2, 2, 1, FALSE), Product(3, 2, 2, FALSE)}

(* A store holding the product rows `rows`, ids 1..Cardinality(rows).       *)
InitStore(rows) ==
  /\ crawler_stats = [c \in Crawlers |->
       [num_products |-> Cardinality({p \in rows : p.crawler_id = c}),
        updated_at |-> 0]]
  /\ benchmark_stats = [b \in Benchmarks |-> [num_products |-> 0, updated_at |-> 0]]
  /\ products = rows
  /\ next_product_id = Cardinality(rows) + 1
  /\ clock = 0

(* The category directory: categories 1 and 2 belong to hub 7, hub 8 has   *)
(* none; category 2 has its embedding.                                     *)
Category(id, hub_id, embedding) ==
  [id |-> id, hub_id |-> hub_id, embedding |-> embedding]

InitCategories == {Category(1, 7, FALSE), Category(2, 7, TRUE)}

InitRows ==
  /\ InitStore(InitProducts)
  /\ pages = ValidPages
  /\ socket = NoSocket
  /\ product_images = {}
  /\ categories = InitCategories
  /\ benchmark_embedding \in [Benchmarks -> BOOLEAN]

InitData == InitRows /\ product_benchmark = {}

(* Associations an earlier Benchmark(1) run left behind; product 3 was     *)
(* within the threshold of the benchmark's text of that time.              *)
EarlierAssociations ==
  {[benchmark_id |-> 1, product_id |-> 1, distance |-> 95],
   [benchmark_id |-> 1, product_id |-> 3, distance |-> 85]}

InitJobs(delivered) ==
  /\ pc = [j \in Jobs |-> IF j \in delivered THEN "start" ELSE "absent"]
  /\ local = [j \in Jobs |-> NoLocals]
  /\ outcome = [j \in Jobs |-> "none"]
  /\ result = [j \in Jobs |-> "none"]
  /\ events = [j \in Jobs |-> <<>>]

(* The worker with up to MaxJobs envelopes delivered, no job of an earlier *)
(* run left over.                                                          *)
Init ==
  /\ crawler_processing = [c \in Crawlers |-> FALSE]
  /\ benchmark_processing = [b \in Benchmarks |-> FALSE]
  /\ InitData
  /\ \E delivered \in SUBSET Jobs :
       /\ Cardinality(delivered) <= MaxJobs
       /\ InitJobs(delivered)

Next ==
  \/ \E j \in CategoryJobs : run_with_hub_processing_guard(j)
  \/ \E j \in BenchmarkJobs : process_benchmark_message(j)
  \/ \E j \in CrawlerJobs : process_crawler_message(j)

Spec == Init /\ [][Next]_vars

(***************************************************************************)
(* One guard run against a store in any flag state.                        *)
(***************************************************************************)
InitGuard ==
  /\ crawler_processing \in [Crawlers -> BOOLEAN]
  /\ benchmark_processing \in [Benchmarks -> BOOLEAN]
  /\ InitData
  /\ \E j \in CategoryJobs : InitJobs({j})

NextGuard == \E j \in CategoryJobs : run_with_hub_processing_guard(j)

SpecGuard == InitGuard /\ [][NextGuard]_vars

(* Category-Match jobs alone: up to MaxJobs of them, any flag state.       *)
InitCategory ==
  /\ crawler_processing \in [Crawlers -> BOOLEAN]
  /\ benchmark_processing \in [Benchmarks -> BOOLEAN]
  /\ InitData
  /\ \E delivered \in SUBSET CategoryJobs :
       /\ Cardinality(delivered) <= MaxJobs
       /\ InitJobs(delivered)

SpecCategory == InitCategory /\ [][NextGuard]_vars

(* Benchmark jobs alone, the benchmarks' flags in any state, with or       *)
(* without the associations of an earlier run.                             *)
InitBenchmark ==
  /\ crawler_processing = [c \in Crawlers |-> FALSE]
  /\ benchmark_processing \in [Benchmarks -> BOOLEAN]
  /\ InitRows
  /\ product_benchmark \in {{}, EarlierAssociations}
  /\ \E delivered \in SUBSET BenchmarkJobs :
       /\ Cardinality(delivered) <= MaxJobs
       /\ InitJobs(delivered)

NextBenchmark == \E j \in BenchmarkJobs : process_benchmark_message(j)

SpecBenchmark == InitBenchmark /\ [][NextBenchmark]_vars

(* Benchmark jobs against a store in which crawler 1 owns more products    *)
(* near the benchmark than one search returns: 11 products at the odd urls *)
(* 1, 3, ..., 21 (cosine distances 5..15), all with their embedding.       *)
ManyProducts ==
  {Product(i, 1, 2 * i - 1, TRUE) : i \in 1..(TopK + 1)} \cup
  {Product(TopK + 2, 2, 1, TRUE), Product(TopK + 3, 2, 2, TRUE)}

InitTopK ==
  /\ crawler_processing = [c \in Crawlers |-> FALSE]
  /\ benchmark_processing = [b \in Benchmarks |-> FALSE]
  /\ InitStore(ManyProducts)
  /\ categories = InitCategories
  /\ pages = ValidPages
  /\ socket = NoSocket
  /\ product_images = {}
  /\ \E embedded \in BOOLEAN : benchmark_embedding = [b \in Benchmarks |-> embedded]
  /\ product_benchmark = {}
  /\ \E delivered \in SUBSET BenchmarkJobs :
       /\ Cardinality(delivered) <= MaxJobs
       /\ InitJobs(delivered)

SpecTopK == InitTopK /\ [][NextBenchmark]_vars

(* Category-Match jobs with the job closure they run, against a store in   *)
(* which products 1 and 3 may have been assigned by hand and the           *)
(* directory of hub 7 may hold no, one or both categories.                 *)
InitMatchStore ==
  /\ crawler_processing = [c \in Crawlers |-> FALSE]
  /\ benchmark_processing = [b \in Benchmarks |-> FALSE]
  /\ crawler_stats = [c \in Crawlers |->
       [num_products |-> Cardinality({p \in InitProducts : p.crawler_id = c}),
        updated_at |-> 0]]
  /\ benchmark_embedding = [b \in Benchmarks |-> TRUE]
  /\ benchmark_stats = [b \in Benchmarks |-> [num_products |-> 0, updated_at |-> 0]]
  /\ \E manual \in SUBSET {1, 3} :
       products =
         {[p EXCEPT !.category_id = (p.id % 3),
                    !.category_assignment_source =
                       IF p.id \in manual THEN "manual" ELSE "automatic"] :
            p \in InitProducts}
  /\ next_product_id = Cardinality(InitProducts) + 1
  /\ product_benchmark = {}
  /\ categories \in {{}, {Category(1, 7, FALSE)}, InitCategories}
  /\ pages = ValidPages
  /\ socket = NoSocket
  /\ product_images = {}
  /\ clock = 0

InitMatch ==
  /\ InitMatchStore
  /\ \E delivered \in SUBSET CategoryJobs :
       /\ Cardinality(delivered) <= MaxJobs
       /\ InitJobs(delivered)

NextMatch == \E j \in CategoryJobs : process_product_category_match_message(j)

SpecMatch == InitMatch /\ [][NextMatch]_vars

(* One Category-Match job, while some other user of the repository calls   *)
(* clear_product_categories_by_crawler at any time.                        *)
InitManual ==
  /\ InitMatchStore
  /\ \E j \in CategoryJobs : InitJobs({j})

clear_categories(c) ==
  /\ products' = clear_product_categories_by_crawler(c, clock)
  /\ UNCHANGED <<flags, crawler_stats, benchmark_embedding, benchmark_stats,
                 next_product_id, product_benchmark, categories, pages, socket, product_images, clock,
                 pc, local, outcome, result, events>>

NextManual ==
  \/ \E j \in CategoryJobs : process_product_category_match_message(j)
  \/ \E c \in Crawlers : clear_categories(c)

SpecManual == InitManual /\ [][NextManual]_vars

(* Crawl jobs against a store whose web stores also serve a product        *)
(* without an amount and one without a price; products 1 and 3 carry       *)
(* associations of an earlier Benchmark run.                               *)
InitCrawl ==
  /\ crawler_processing = [c \in Crawlers |-> FALSE]
  /\ benchmark_processing = [b \in Benchmarks |-> FALSE]
  /\ InitStore(InitProducts)
  /\ categories = InitCategories
  /\ benchmark_embedding = [b \in Benchmarks |-> TRUE]
  /\ product_benchmark = EarlierAssociations
  /\ pages = CrawlPages
  /\ socket = NoSocket
  /\ product_images = {}
  /\ \E delivered \in SUBSET CrawlerJobs :
       /\ Cardinality(delivered) <= MaxJobs
       /\ InitJobs(delivered)

NextCrawl == \E j \in CrawlerJobs : process_crawler_message(j)

SpecCrawl == InitCrawl /\ [][NextCrawl]_vars

(* One Crawl job against a web store that serves one raw product, of any   *)
(* field values.                                                           *)
InitValidation ==
  /\ crawler_processing = [c \in Crawlers |-> FALSE]
  /\ benchmark_processing = [b \in Benchmarks |-> FALSE]
  /\ InitStore(InitProducts)
  /\ categories = InitCategories
  /\ benchmark_embedding = [b \in Benchmarks |-> TRUE]
  /\ product_benchmark = {}
  /\ \E raw \in RawSpace : pages = {raw}
  /\ socket = NoSocket
  /\ product_images = {}
  /\ \E j \in CrawlerJobs : InitJobs({j})

SpecValidation == InitValidation /\ [][NextCrawl]_vars

(* One full-replace Crawl job inside get_products, its category fetch     *)
(* about to start, against web stores that serve two records at url 1.     *)
InitPipeline ==
  /\ crawler_processing = [c \in Crawlers |-> FALSE]
  /\ benchmark_processing = [b \in Benchmarks |-> FALSE]
  /\ InitStore(InitProducts)
  /\ categories = InitCategories
  /\ benchmark_embedding = [b \in Benchmarks |-> TRUE]
  /\ product_benchmark = {}
  /\ pages = CrawlPages
  /\ socket = NoSocket
  /\ product_images = {}
  /\ \E j \in {k \in CrawlerJobs : full_replace(k)
                                     /\ Message[k].selector \in {"rusteaco", "101tea"}} :
       /\ pc = [k \in Jobs |-> IF k = j THEN "get_products_stages" ELSE "absent"]
       /\ local = [k \in Jobs |->
            IF k = j
              THEN [NoLocals EXCEPT !.crawler_id = get_crawler(Message[j].selector),
                                    !.permits = Concurrency,
                                    !.stage = 1,
                                    !.tasks = <<Task(1, <<"base">>)>>]
              ELSE NoLocals]
       /\ outcome = [k \in Jobs |-> "none"]
       /\ result = [k \in Jobs |-> "none"]
       /\ events = [k \in Jobs |-> <<>>]

NextPipeline == \E j \in CrawlerJobs : get_products(j)

SpecPipeline == InitPipeline /\ [][NextPipeline]_vars

(* Every fetch terminates and every ready future is polled.                *)
SpecPipelineFair == SpecPipeline /\ WF_vars(NextPipeline)

(***************************************************************************)
(* The dispatcher (main.rs): a PULL socket and the receive loop.  A frame  *)
(* on the socket is an envelope of a Crawl message, bytes that do not      *)
(* decode, or a receive that returns an error (zmq: EINTR, ETERM).         *)
(***************************************************************************)
MaxFrames == 2

RecvError == [kind |-> "recv_error", job |-> 0]

Malformed == [kind |-> "malformed", job |-> 0]

Envelope(j) == [kind |-> "envelope", job |-> j]

Frames == {RecvError, Malformed} \cup {Envelope(j) : j \in {6, 8}}

(* The task main spawns for a decoded message: a crawler with its own      *)
(* semaphore, about to call get_products.                                  *)
spawn(j) ==
  /\ pc' = [pc EXCEPT ![j] = "get_products_stages"]
  /\ local' = [local EXCEPT ![j] =
       [NoLocals EXCEPT !.crawler_id = get_crawler(Message[j].selector),
                        !.permits = Concurrency,
                        !.stage = 1,
                        !.tasks = <<Task(1, <<"base">>)>>]]

(* One turn of the loop: recv_bytes(0).unwrap(), serde_json::from_slice,   *)
(* and the match on the decoded message.                                   *)
receive ==
  LET frame == Head(socket.pending) IN
  /\ socket.loop = "recv"
  /\ socket.pending # <<>>
  /\ \/ /\ frame.kind = "recv_error"
        /\ socket' = [socket EXCEPT !.pending = Tail(@),
                                    !.received = Append(@, frame),
                                    !.loop = "panicked"]
        /\ UNCHANGED <<pc, local>>
     \/ /\ frame.kind = "malformed"
        /\ socket' = [socket EXCEPT !.pending = Tail(@),
                                    !.received = Append(@, frame)]
        /\ UNCHANGED <<pc, local>>
     \/ /\ frame.kind = "envelope"
        /\ socket' = [socket EXCEPT !.pending = Tail(@),
                                    !.received = Append(@, frame)]
        /\ IF Message[frame.job].selector = "rusteaco"
             THEN spawn(frame.job)
             ELSE UNCHANGED <<pc, local>>
  /\ UNCHANGED <<flags, crawler_stats, benchmark_embedding, benchmark_stats,
                 products, next_product_id, product_benchmark, product_images,
                 categories, pages, clock, outcome, result, events>>

(* A spawned task runs for as long as the process does: the panic of main  *)
(* ends the runtime.                                                       *)
spawned_task(j) == socket.loop = "recv" /\ get_products(j)

InitDispatch ==
  /\ crawler_processing = [c \in Crawlers |-> FALSE]
  /\ benchmark_processing = [b \in Benchmarks |-> FALSE]
  /\ InitStore(InitProducts)
  /\ categories = InitCategories
  /\ benchmark_embedding = [b \in Benchmarks |-> TRUE]
  /\ product_benchmark = {}
  /\ pages = CrawlPages
  /\ \E pending \in [1..MaxFrames -> Frames] :
       /\ \A i, k \in 1..MaxFrames :
            pending[i] = pending[k] /\ pending[i].kind = "envelope" => i = k
       /\ socket = [NoSocket EXCEPT !.pending = pending]
       /\ product_images = {}
  /\ InitJobs({})

NextDispatch ==
  \/ receive
  \/ \E j \in CrawlerJobs : spawned_task(j)

SpecDispatch == InitDispatch /\ [][NextDispatch]_vars

(***************************************************************************)
(* load_or_generate_embedding (processing/embedding.rs) and its caller in  *)
(* the product loop of the category match (processing/category.rs).  An    *)
(* f32 is its four bytes, low byte first; the number it stands for is the  *)
(* two's-complement count of hundredths those bytes spell.  A blob is a    *)
(* sequence of bytes.                                                      *)
(***************************************************************************)
Byte == 256

Bytes == {0, 255}

MaxFloats == 2

(* The blobs set_product_embedding stores: four bytes for every f32.       *)
Blobs == UNION {[1..(4 * n) -> Bytes] : n \in 1..MaxFloats}

(* The four bytes of a natural number, low byte first.                     *)
le_bytes(n) ==
  <<n % Byte, (n \div Byte) % Byte, (n \div (Byte * Byte)) % Byte,
    (n \div (Byte * Byte * Byte)) % Byte>>

(* The f32 that stands for x hundredths.                                   *)
bits(x) ==
  IF x >= 0 THEN le_bytes(x)
  ELSE [i \in 1..4 |-> (Byte - 1) - le_bytes((0 - x) - 1)[i]]

magnitude(word) ==
  word[1] + Byte * word[2] + Byte * Byte * word[3] + Byte * Byte * Byte * word[4]

(* The hundredths an f32 stands for.                                       *)
number(word) ==
  IF word[4] >= Byte \div 2
    THEN 0 - (magnitude([i \in 1..4 |-> (Byte - 1) - word[i]]) + 1)
    ELSE magnitude(word)

(* cast_slice::<f32, u8>: the bytes of each f32, low byte first.           *)
cast_bytes(vector) ==
  [i \in 1..(4 * Len(vector)) |-> vector[(i + 3) \div 4][((i - 1) % 4) + 1]]

RECURSIVE sum_squares(_)
sum_squares(vector) ==
  IF vector = <<>> THEN 0
  ELSE number(Head(vector)) * number(Head(vector)) + sum_squares(Tail(vector))

sqrt(n) == CHOOSE r \in 0..n : r * r <= n /\ n < (r + 1) * (r + 1)

(* Division of hundredths, rounded towards zero.                           *)
quotient(x, norm) ==
  IF x >= 0 THEN (x * 100) \div norm ELSE 0 - (((0 - x) * 100) \div norm)

(* Mutant: the generated vector is left as the embedder gave it.           *)
normalize_embedding_skipped(vector) == vector

(* normalize_embedding: the vector over its norm, or itself when the norm  *)
(* is zero.                                                                *)
normalize_embedding(vector) ==
  LET norm == sqrt(sum_squares(vector)) IN
  IF norm = 0 THEN vector
  ELSE [i \in DOMAIN vector |-> bits(quotient(number(vector[i]), norm))]

(* Mutant: the bytes of each f32 are read high byte first.                 *)
cast_slice_big_endian(blob) ==
  [i \in 1..(Len(blob) \div 4) |->
     <<blob[4 * i], blob[4 * i - 1], blob[4 * i - 2], blob[4 * i - 3]>>]

(* cast_slice::<u8, f32>: every four bytes are one f32, low byte first.    *)
cast_slice(blob) ==
  [i \in 1..(Len(blob) \div 4) |->
     <<blob[4 * i - 3], blob[4 * i - 2], blob[4 * i - 1], blob[4 * i]>>]

(* What embedder.embed(vec![prompt], None) may return in Ok: a list of     *)
(* vectors, of which the first is taken.                                   *)
EmbedderOutputs ==
  {<<>>,
   <<<<bits(300), bits(400)>>>>,
   <<<<bits(0), bits(0 - 500)>>>>,
   <<<<bits(0), bits(0)>>>>,
   <<<<bits(60), bits(80)>>, <<bits(100), bits(0)>>>>}

(* .into_iter().next().map(normalize_embedding).unwrap_or_default()        *)
first_normalized(output) ==
  IF output = <<>> THEN <<>> ELSE normalize_embedding(Head(output))

Loaded(ok, embedding, generated) ==
  [ok |-> ok, embedding |-> embedding, generated |-> generated]

(* The caller's match on the result: the embedding goes to the search, an  *)
(* Err ends the job.                                                       *)
resolved(j, loaded) ==
  /\ local' = [local EXCEPT ![j].loaded = <<loaded>>]
  /\ Goto(j, IF loaded.ok THEN "search_top_k" ELSE "done")
  /\ outcome' = [outcome EXCEPT ![j] = IF loaded.ok THEN @ ELSE "Err"]

(* if let Some(blob) = existing_blob { return Ok((cast_slice(blob), false)) } *)
embedding_load(j) ==
  /\ pc[j] = "load_or_generate_embedding"
  /\ IF local[j].existing_blob # <<>>
       THEN resolved(j, Loaded(TRUE, cast_slice(Head(local[j].existing_blob)), FALSE))
       ELSE Goto(j, "embed") /\ UNCHANGED <<local, outcome>>
  /\ UNCHANGED <<db, result, events>>

(* embedder.embed(...).map_err(...)? and the normalisation of its first    *)
(* vector.                                                                 *)
embedding_embed(j) ==
  /\ pc[j] = "embed"
  /\ \/ /\ local' = [local EXCEPT ![j].embedder_calls = @ + 1,
                                  ![j].loaded = <<Loaded(FALSE, <<>>, FALSE)>>]
        /\ Goto(j, "done")
        /\ outcome' = [outcome EXCEPT ![j] = "Err"]
     \/ \E output \in EmbedderOutputs :
          /\ local' = [local EXCEPT ![j].embedder_calls = @ + 1,
                                    ![j].embedded = <<output>>,
                                    ![j].vector = first_normalized(output)]
          /\ Goto(j, "persist")
          /\ UNCHANGED outcome
  /\ UNCHANGED <<db, result, events>>

(* persist(&generated)?, the caller's set_product_embedding, and the       *)
(* return of Ok((generated, true)).                                        *)
embedding_persist(j) ==
  /\ pc[j] = "persist"
  /\ \/ /\ resolved(j, Loaded(FALSE, <<>>, FALSE))
        /\ Mark(j, "set_product_embedding->err")
        /\ UNCHANGED <<db, result>>
     \/ /\ products' = set_product_embedding(Head(local[j].products).id)
        /\ Mark(j, "set_product_embedding")
        /\ local' = [local EXCEPT
             ![j].persisted = Append(@, cast_bytes(local[j].vector)),
             ![j].loaded = <<Loaded(TRUE, local[j].vector, TRUE)>>]
        /\ Goto(j, "search_top_k")
        /\ UNCHANGED <<flags, crawler_stats, benchmark_embedding, benchmark_stats,
                       next_product_id, product_benchmark, categories, pages, socket, product_images,
                       clock, outcome, result>>

(* The caller goes on with the embedding it was given.                     *)
embedding_search(j) ==
  /\ pc[j] = "search_top_k"
  /\ local' = [local EXCEPT ![j].used = Append(@, Head(local[j].loaded).embedding)]
  /\ Goto(j, "done")
  /\ outcome' = [outcome EXCEPT ![j] = "Ok"]
  /\ UNCHANGED <<db, result, events>>

load_or_generate_embedding(j) ==
  \/ embedding_load(j)
  \/ embedding_embed(j)
  \/ embedding_persist(j)
  \/ embedding_search(j)

(* One category-match job at a product of its hub, whose row holds a       *)
(* stored blob or none.                                                    *)
InitEmbedding ==
  /\ crawler_processing = [c \in Crawlers |-> FALSE]
  /\ benchmark_processing = [b \in Benchmarks |-> FALSE]
  /\ InitStore(InitProducts)
  /\ categories = InitCategories
  /\ benchmark_embedding = [b \in Benchmarks |-> TRUE]
  /\ product_benchmark = {}
  /\ pages = ValidPages
  /\ socket = NoSocket
  /\ product_images = {}
  /\ \E j \in CategoryJobs : \E product \in {p \in InitProducts : crawler_hub_id[p.crawler_id] = Message[j].hub_id} :
     \E blob \in IF product.embedding THEN {<<b>> : b \in Blobs} ELSE {<<>>} :
       /\ pc = [k \in Jobs |-> IF k = j THEN "load_or_generate_embedding" ELSE "absent"]
       /\ local = [k \in Jobs |->
            IF k = j THEN [NoLocals EXCEPT !.products = <<product>>,
                                           !.existing_blob = blob]
            ELSE NoLocals]
       /\ outcome = [k \in Jobs |-> "none"]
       /\ result = [k \in Jobs |-> "none"]
       /\ events = [k \in Jobs |-> <<>>]

NextEmbedding == \E j \in CategoryJobs : load_or_generate_embedding(j)

SpecEmbedding == InitEmbedding /\ [][NextEmbedding]_vars

(***************************************************************************)
(* search_top_k (processing/embedding.rs) applied to a query, a list of    *)
(* items and a k.  The query is the url of the embedded text, an item the  *)
(* id its embedding is indexed under.                                      *)
(***************************************************************************)
MaxK == 2

SearchItems ==
  {items \in UNION {[1..n -> 1..(MaxK + 1)] : n \in 0..(MaxK + 1)} :
     \A i, k \in DOMAIN items : items[i] = items[k] => i = k}

search(j) ==
  /\ pc[j] = "search"
  /\ local' = [local EXCEPT ![j].neighbors =
       search_top_k(local[j].query, local[j].items, local[j].k)]
  /\ Goto(j, "searched")
  /\ UNCHANGED <<db, outcome, result, events>>

InitSearch ==
  /\ InitMatchStore
  /\ \E j \in CategoryJobs, query \in Urls, items \in SearchItems, k \in 0..MaxK :
       /\ pc = [i \in Jobs |-> IF i = j THEN "search" ELSE "absent"]
       /\ local = [i \in Jobs |->
            IF i = j THEN [NoLocals EXCEPT !.query = query, !.items = items, !.k = k]
            ELSE NoLocals]
       /\ outcome = [i \in Jobs |-> "none"]
       /\ result = [i \in Jobs |-> "none"]
       /\ events = [i \in Jobs |-> <<>>]

NextSearch == \E j \in CategoryJobs : search(j)

SpecSearch == InitSearch /\ [][NextSearch]_vars

(***************************************************************************)
(* parse_amount_units (crawlers/mod.rs).  A string is a sequence of        *)
(* characters, a Cyrillic letter written by its name ("ge", "ka", "em",    *)
(* "el", "sha", "te"); an f64 amount is its count of thousandths.          *)
(***************************************************************************)
Digit == [c \in {"0", "1", "2", "5"} |->
            IF c = "0" THEN 0 ELSE IF c = "1" THEN 1 ELSE IF c = "2" THEN 2 ELSE 5]

UnitChars == {"a", "b", "c", "ge", "ka", "em", "el", "%"}

default_amount == 1000

default_units == <<"sha", "te">>

RECURSIVE trim_start_matches(_, _)
trim_start_matches(s, chars) ==
  IF s # <<>> /\ Head(s) \in chars THEN trim_start_matches(Tail(s), chars) ELSE s

RECURSIVE trim_end(_)
trim_end(s) ==
  IF s # <<>> /\ s[Len(s)] = " " THEN trim_end(SubSeq(s, 1, Len(s) - 1)) ELSE s

(* The length of the longest prefix of s made of the characters.           *)
RECURSIVE span(_, _)
span(s, chars) ==
  IF s # <<>> /\ Head(s) \in chars THEN 1 + span(Tail(s), chars) ELSE 0

RECURSIVE natural(_)
natural(digits) ==
  IF digits = <<>> THEN 0
  ELSE 10 * natural(SubSeq(digits, 1, Len(digits) - 1)) + Digit[digits[Len(digits)]]

(* The first three decimals of a fraction, as thousandths.                 *)
thousandths(digits) ==
  natural([i \in 1..3 |-> IF i <= Len(digits) THEN digits[i] ELSE "0"])

(* Mutant: only '.' is read as the decimal separator.                      *)
parse_decimal_point_only(s) ==
  LET whole == span(s, DOMAIN Digit)
      rest == SubSeq(s, whole + 1, Len(s))
      fraction == IF rest = <<>> THEN 0 ELSE span(Tail(rest), DOMAIN Digit)
  IN  IF rest = <<>>
        THEN IF whole = 0 THEN 0 - 1 ELSE 1000 * natural(s)
      ELSE IF Head(rest) # "." \/ Len(rest) # fraction + 1 \/ whole + fraction = 0
        THEN 0 - 1
      ELSE 1000 * natural(SubSeq(s, 1, whole)) + thousandths(Tail(rest))

(* s.replace(',', ".").parse::<f64>(): digits with at most one separator   *)
(* among or beside them; -1 stands for Err.                                *)
parse(s) ==
  LET whole == span(s, DOMAIN Digit)
      rest == SubSeq(s, whole + 1, Len(s))
      fraction == IF rest = <<>> THEN 0 ELSE span(Tail(rest), DOMAIN Digit)
  IN  IF rest = <<>>
        THEN IF whole = 0 THEN 0 - 1 ELSE 1000 * natural(s)
      ELSE IF Head(rest) \notin {",", "."} \/ Len(rest) # fraction + 1
                \/ whole + fraction = 0
        THEN 0 - 1
      ELSE 1000 * natural(SubSeq(s, 1, whole)) + thousandths(Tail(rest))

RECURSIVE split_whitespace(_)
split_whitespace(s) ==
  LET t == trim_start_matches(s, {" "})
      n == span(t, UnitChars \cup DOMAIN Digit \cup {",", ".", "/", "-"})
  IN  IF t = <<>> THEN <<>>
      ELSE <<SubSeq(t, 1, n)>> \o split_whitespace(SubSeq(t, n + 1, Len(t)))

(* The captures of the regex: digits, at will a separator and digits,      *)
(* then unit characters at once, spaces around; <<>> when the string does  *)
(* not match.                                                              *)
captures(s) ==
  LET core == trim_end(trim_start_matches(s, {" "}))
      whole == span(core, DOMAIN Digit)
      after == SubSeq(core, whole + 1, Len(core))
      fraction == IF after # <<>> /\ Head(after) \in {",", "."}
                    THEN span(Tail(after), DOMAIN Digit) ELSE 0
      amount_len == IF fraction = 0 THEN whole ELSE whole + 1 + fraction
      units == SubSeq(core, amount_len + 1, Len(core))
  IN  IF whole = 0 \/ span(units, UnitChars) # Len(units) THEN <<>>
      ELSE <<SubSeq(core, 1, amount_len), units>>

Parsed(amount, units) == [amount |-> amount, units |-> units]

or_default(amount) == IF amount < 0 THEN default_amount ELSE amount

parse_amount_units(input) ==
  LET trimmed == trim_start_matches(trim_start_matches(input, {"/"}), {" "})
      caps == captures(trimmed)
      tokens == split_whitespace(trimmed)
  IN  IF caps # <<>>
        THEN Parsed(or_default(parse(caps[1])),
                    IF caps[2] = <<>> THEN default_units ELSE caps[2])
      ELSE IF Len(tokens) >= 2
        THEN Parsed(or_default(parse(tokens[Len(tokens) - 1])), tokens[Len(tokens)])
      ELSE IF Len(tokens) = 1
        THEN Parsed(or_default(parse(tokens[1])), default_units)
      ELSE Parsed(default_amount, default_units)

MaxInput == 3

ShortChars == {"/", " ", "5", ",", ".", "ka", "-"}

(* The amount texts of the store pages and every short text.               *)
Inputs ==
  {<<"/", "1", "0", "0", " ", "ge">>, <<"0", ",", "5", " ", "ka", "ge">>,
   <<"a", "b", "c">>, <<"2", "5", "0", "em", "el">>, <<"5", "%">>,
   <<"/", "/", " ", "0", ".", "5", "ka", "ge", " ">>, <<"1", " ", "5", ",", "2", "5", " ", "el">>}
  \cup UNION {[1..n -> ShortChars] : n \in 0..MaxInput}

parse_amount(j) ==
  /\ pc[j] = "parse_amount_units"
  /\ local' = [local EXCEPT ![j].parsed = <<parse_amount_units(local[j].input)>>]
  /\ Goto(j, "parsed")
  /\ UNCHANGED <<db, outcome, result, events>>

InitParse ==
  /\ crawler_processing = [c \in Crawlers |-> FALSE]
  /\ benchmark_processing = [b \in Benchmarks |-> FALSE]
  /\ InitData
  /\ \E input \in Inputs :
       /\ pc = [i \in Jobs |-> IF i = 8 THEN "parse_amount_units" ELSE "absent"]
       /\ local = [i \in Jobs |->
            IF i = 8 THEN [NoLocals EXCEPT !.input = input] ELSE NoLocals]
       /\ outcome = [i \in Jobs |-> "none"]
       /\ result = [i \in Jobs |-> "none"]
       /\ events = [i \in Jobs |-> <<>>]

NextParse == \E j \in CrawlerJobs : parse_amount(j)

SpecParse == InitParse /\ [][NextParse]_vars

(***************************************************************************)
(* The multi-row writers of repository/product.rs, statement by statement. *)
(* conn.transaction runs its closure on the connection's own view of the   *)
(* tables (tx): the tables take that view when the closure returns Ok and  *)
(* keep their rows when a statement returns an Err.  The store admits one  *)
(* write transaction at a time.                                            *)
(***************************************************************************)
ImageUrls == {{}, {"b.jpg"}, {"a.jpg", "b.jpg"}}

Tables ==
  [products |-> products, product_benchmark |-> product_benchmark,
   product_images |-> product_images, next_id |-> next_product_id,
   product_id |-> 0, ids |-> {}]

Statement(kind, product, images) == [kind |-> kind, new |-> product, images |-> images]

NoProduct == NewProduct(0, RawProduct(0, "", "", 0, 0), 0)

(* replace_product_images: DELETE the product's images; INSERT the new     *)
(* ones unless there is none.                                              *)
replace_product_images(image_urls) ==
  <<Statement("delete_images", NoProduct, {}),
    Statement("insert_images", NoProduct, image_urls)>>

RECURSIVE create_products_statements(_)
create_products_statements(input) ==
  IF input = <<>> THEN <<>>
  ELSE <<Statement("insert_product", Head(input).new, {})>>
         \o replace_product_images(Head(input).images)
         \o create_products_statements(Tail(input))

RECURSIVE update_products_statements(_)
update_products_statements(input) ==
  IF input = <<>> THEN <<>>
  ELSE <<Statement("upsert_product", Head(input).new, {})>>
         \o replace_product_images(Head(input).images)
         \o update_products_statements(Tail(input))

delete_products_statements ==
  <<Statement("select_ids", NoProduct, {}),
    Statement("delete_associations", NoProduct, {}),
    Statement("delete_products", NoProduct, {})>>

(* The statement is not issued: no image to insert, no id to cascade to.   *)
not_issued(tx, stmt) ==
  \/ stmt.kind = "insert_images" /\ stmt.images = {}
  \/ stmt.kind = "delete_associations" /\ tx.ids = {}

(* The statement cannot succeed: a plain INSERT on a taken key.            *)
rejected(tx, stmt) == stmt.kind = "insert_product" /\ Conflict(tx.products, stmt.new)

(* One statement on the transaction's view, for the crawler crawler_id.    *)
execute(tx, stmt, crawler_id, now) ==
  CASE stmt.kind = "insert_product" ->
         [tx EXCEPT !.products = insert_products(tx.products, <<stmt.new>>, tx.next_id, now),
                    !.next_id = tx.next_id + 1,
                    !.product_id = tx.next_id]
    [] stmt.kind = "upsert_product" ->
         LET up == upsert_products(tx.products, <<stmt.new>>, tx.next_id, now)
             row == CHOOSE r \in up.rows :
                      r.crawler_id = stmt.new.crawler_id /\ r.url = stmt.new.url
         IN  [tx EXCEPT !.products = up.rows, !.next_id = up.next_id,
                        !.product_id = row.id]
    [] stmt.kind = "delete_images" ->
         [tx EXCEPT !.product_images = {i \in @ : i.product_id # tx.product_id}]
    [] stmt.kind = "insert_images" ->
         [tx EXCEPT !.product_images =
            @ \cup {[product_id |-> tx.product_id, url |-> url] : url \in stmt.images}]
    [] stmt.kind = "select_ids" ->
         [tx EXCEPT !.ids = {p.id : p \in {r \in tx.products : r.crawler_id = crawler_id}}]
    [] stmt.kind = "delete_associations" ->
         [tx EXCEPT !.product_benchmark = {a \in @ : a.product_id \notin tx.ids}]
    [] stmt.kind = "delete_products" ->
         [tx EXCEPT !.products = {p \in @ : p.crawler_id # crawler_id}]

(* Mutant: the statements run outside a transaction, each one committed    *)
(* as it is executed.                                                      *)
transaction_missing(tables, tx, exit) == tx

(* conn.transaction: commit on Ok, rollback on Err.                        *)
transaction(tables, tx, exit) == IF exit = "Ok" THEN tx ELSE tables

(* The writes a Crawl job may issue: delete_products of its crawler, or    *)
(* create_products / update_products of up to MaxUrl records with images.  *)
Item(crawler_id, url, images) ==
  [new |-> NewProduct(crawler_id, RawProduct(url, "S1", "Tea", 10, 100), 100),
   images |-> images]

Writes(crawler_id) ==
  LET items == {Item(crawler_id, url, images) : url \in Urls, images \in ImageUrls}
      lists == UNION {[1..n -> items] : n \in 0..MaxUrl}
  IN  {[op |-> "delete_products", input |-> <<>>, statements |-> delete_products_statements]}
        \cup {[op |-> "create_products", input |-> input,
               statements |-> create_products_statements(input)] : input \in lists}
        \cup {[op |-> "update_products", input |-> input,
               statements |-> update_products_statements(input)] : input \in lists}

write_begin(j) ==
  /\ pc[j] = "start"
  /\ \A k \in Jobs : pc[k] # "transaction"
  /\ \E w \in Writes(get_crawler(Message[j].selector)) :
       local' = [local EXCEPT ![j].crawler_id = get_crawler(Message[j].selector),
                              ![j].op = w.op, ![j].input = w.input,
                              ![j].statements = w.statements,
                              ![j].before = Tables, ![j].tx = Tables]
  /\ Goto(j, "transaction")
  /\ UNCHANGED <<db, outcome, result, events>>

write_set(tables) ==
  /\ products' = tables.products
  /\ product_benchmark' = tables.product_benchmark
  /\ product_images' = tables.product_images
  /\ next_product_id' = tables.next_id

write_statement(j) ==
  LET tx == local[j].tx
      stmt == Head(local[j].statements) IN
  /\ pc[j] = "transaction"
  /\ local[j].statements # <<>>
  /\ \/ /\ ~not_issued(tx, stmt)                \* the statement returns an Err
        /\ write_set(transaction(Tables, tx, "Err"))
        /\ Mark(j, local[j].op \o "->err")
        /\ Return(j, "Err")
        /\ UNCHANGED <<flags, crawler_stats, benchmark_embedding, benchmark_stats,
                       categories, pages, socket, clock, local, outcome>>
     \/ /\ ~rejected(tx, stmt)
        /\ local' = [local EXCEPT
             ![j].tx = IF not_issued(tx, stmt) THEN tx
                       ELSE execute(tx, stmt, local[j].crawler_id, clock + 1),
             ![j].statements = Tail(@)]
        /\ UNCHANGED <<db, pc, outcome, result, events>>

write_commit(j) ==
  /\ pc[j] = "transaction"
  /\ local[j].statements = <<>>
  /\ write_set(transaction(Tables, local[j].tx, "Ok"))
  /\ clock' = clock + 1
  /\ Mark(j, local[j].op)
  /\ Return(j, "Ok")
  /\ UNCHANGED <<flags, crawler_stats, benchmark_embedding, benchmark_stats,
                 categories, pages, socket, local, outcome>>

(* The store with images of products 1 and 3 and the associations of an    *)
(* earlier Benchmark run; up to MaxJobs writes, one after the other.       *)
InitWrite ==
  /\ crawler_processing = [c \in Crawlers |-> FALSE]
  /\ benchmark_processing = [b \in Benchmarks |-> FALSE]
  /\ InitStore(InitProducts)
  /\ categories = InitCategories
  /\ benchmark_embedding = [b \in Benchmarks |-> TRUE]
  /\ product_benchmark = EarlierAssociations
  /\ product_images = {[product_id |-> 1, url |-> "a.jpg"],
                       [product_id |-> 3, url |-> "a.jpg"]}
  /\ pages = ValidPages
  /\ socket = NoSocket
  /\ \E delivered \in SUBSET {6, 7} :
       /\ Cardinality(delivered) <= MaxJobs
       /\ InitJobs(delivered)

NextWrite ==
  \E j \in CrawlerJobs : write_begin(j) \/ write_statement(j) \/ write_commit(j)

SpecWrite == InitWrite /\ [][NextWrite]_vars

(***************************************************************************)
(* Benchmark and Category-Match jobs delivered one after the other: an     *)
(* envelope is taken up when the job before it has returned.               *)
(***************************************************************************)
one_at_a_time(j) == \A k \in Jobs \ {j} : pc[k] \in {"absent", "start", "done"}

InitRerun ==
  /\ crawler_processing = [c \in Crawlers |-> FALSE]
  /\ benchmark_processing = [b \in Benchmarks |-> FALSE]
  /\ InitData
  /\ \E delivered \in SUBSET (CategoryJobs \cup BenchmarkJobs) :
       /\ Cardinality(delivered) <= MaxJobs
       /\ InitJobs(delivered)

NextRerun ==
  \/ \E j \in CategoryJobs :
       one_at_a_time(j) /\ process_product_category_match_message(j)
  \/ \E j \in BenchmarkJobs :
       one_at_a_time(j) /\ process_benchmark_message(j)

SpecRerun == InitRerun /\ [][NextRerun]_vars

(***************************************************************************)
(* Vocabulary of the properties.                                           *)
(***************************************************************************)
job_hub_id(j) ==
  CASE Message[j].kind = "ProductCategoryMatch" -> Message[j].hub_id
    [] Message[j].kind = "Benchmark" -> benchmark_hub_id[Message[j].benchmark_id]
    [] Message[j].kind = "Crawler" -> crawler_hub_id[get_crawler(Message[j].selector)]

HubCrawlersAll(hub_id, value) ==
  \A c \in Crawlers : crawler_hub_id[c] = hub_id => crawler_processing[c] = value

HubBenchmarksAll(hub_id, value) ==
  \A b \in Benchmarks : benchmark_hub_id[b] = hub_id => benchmark_processing[b] = value

HubIdle(hub_id) == HubCrawlersAll(hub_id, FALSE) /\ HubBenchmarksAll(hub_id, FALSE)

(* The job has set processing=true and has not yet come to the write that  *)
(* resets it.                                                              *)
InWorkPhase(j) ==
  CASE Message[j].kind = "ProductCategoryMatch" -> pc[j] = "job"
    [] Message[j].kind = "Benchmark" ->
         pc[j] \in {"embedder", "benchmark_embedding", "list_crawlers",
                    "remove_associations", "list_products", "product_embedding",
                    "set_association"}
    [] Message[j].kind = "Crawler" ->
         /\ pc[j] \in {"delete_products", "get_products", "create_products",
                       "get_product", "update_products"}
         /\ events[j][1] = "set_crawler_processing(true)"

Claimed(j) ==
  /\ Len(events[j]) >= 2
  /\ events[j][1] = "set_hub_crawlers_processing(true)"
  /\ events[j][2] = "set_hub_benchmarks_processing(true)"

(***************************************************************************)
(* C1.  Of two Category-Match jobs started concurrently for one hub whose  *)
(* flags are all false, exactly one claims and runs its job body: the two  *)
(* job bodies are never both running.                                      *)
(***************************************************************************)
C1_OneCategoryMatchClaims ==
  \A j1, j2 \in CategoryJobs :
    (j1 # j2 /\ Message[j1].hub_id = Message[j2].hub_id)
      => ~(pc[j1] = "job" /\ pc[j2] = "job")

(***************************************************************************)
(* C2.  No two jobs of one hub, of any kinds (Crawl, Benchmark,            *)
(* Category-Match), are in their work phase at the same time; stated here  *)
(* for jobs of different envelopes (a Crawl and a Benchmark of the hub,    *)
(* two Crawls of different crawlers of the hub, ...).                      *)
(***************************************************************************)
C2_OneJobPerHubInWorkPhase ==
  \A j1, j2 \in Jobs :
    (Message[j1] # Message[j2] /\ InWorkPhase(j1) /\ InWorkPhase(j2))
      => job_hub_id(j1) # job_hub_id(j2)

(***************************************************************************)
(* C3.  A guard run that claimed the hub (both flags set to true) issues   *)
(* set_hub_crawlers_processing(false) and then                             *)
(* set_hub_benchmarks_processing(false) before it returns, also when the   *)
(* job body returned Err, and then returns Err; when both writes succeed   *)
(* both flag groups of the hub are false when the guard returns.           *)
(***************************************************************************)
ResetCrawlersCalls ==
  {"set_hub_crawlers_processing(false)", "set_hub_crawlers_processing(false)->err"}

ResetBenchmarksCalls ==
  {"set_hub_benchmarks_processing(false)", "set_hub_benchmarks_processing(false)->err"}

C3_GuardReleasesAfterFailure ==
  \A j \in CategoryJobs :
    (pc[j] = "done" /\ Claimed(j)) =>
      /\ Len(events[j]) = 5
      /\ events[j][3] = "job_started"
      /\ events[j][4] \in ResetCrawlersCalls
      /\ events[j][5] \in ResetBenchmarksCalls
      /\ outcome[j] = "Err" => result[j] = "Err"
      /\ (/\ events[j][4] = "set_hub_crawlers_processing(false)"
          /\ events[j][5] = "set_hub_benchmarks_processing(false)")
           => HubIdle(Message[j].hub_id)

C3_Witness ==
  \E j \in CategoryJobs :
    /\ pc[j] = "done" /\ Claimed(j) /\ outcome[j] = "Err" /\ result[j] = "Err"
    /\ events[j][4] = "set_hub_crawlers_processing(false)"
    /\ events[j][5] = "set_hub_benchmarks_processing(false)"
    /\ HubIdle(Message[j].hub_id)

(***************************************************************************)
(* C4.  When has_any_processing_in_hub answers true (a crawler or a        *)
(* benchmark of the hub has processing=true when it is counted), the guard *)
(* returns Ok(None) in that step: the job body has not run, the guard has  *)
(* issued no repository write and the step changes nothing in the store.   *)
(***************************************************************************)
C4_SkipHasNoSideEffects ==
  [][\A j \in CategoryJobs :
       /\ (/\ pc[j] = "start" /\ pc'[j] # "start"
           /\ ~HubCrawlersAll(Message[j].hub_id, FALSE))
            => result'[j] \in {"Skipped", "Err"}
       /\ (/\ pc[j] = "check_benchmarks" /\ pc'[j] # "check_benchmarks"
           /\ ~HubBenchmarksAll(Message[j].hub_id, FALSE))
            => result'[j] \in {"Skipped", "Err"}
       /\ (result[j] # "Skipped" /\ result'[j] = "Skipped")
            => /\ pc'[j] = "done"
               /\ events'[j] = <<>>
               /\ outcome'[j] = "none"
               /\ UNCHANGED db
       /\ result[j] = "Skipped" => UNCHANGED <<pc[j], events[j], outcome[j], result[j]>>
    ]_vars

C4_Witness ==
  \E j \in CategoryJobs :
    /\ result[j] = "Skipped" /\ pc[j] = "done" /\ events[j] = <<>>
    /\ ~HubIdle(Message[j].hub_id)

(***************************************************************************)
(* C5 as stated.  A guard run from idle flags whose job succeeds issues    *)
(* exactly set_hub_crawlers_processing(true),                              *)
(* set_hub_benchmarks_processing(true), the job body,                      *)
(* set_hub_crawlers_processing(false), set_hub_benchmarks_processing(false)*)
(* with both flag groups true during the body and false when it returns    *)
(* Ok(Some(value)).                                                        *)
(***************************************************************************)
C5_AsStated ==
  \A j \in CategoryJobs :
    /\ pc[j] = "job" =>
         /\ HubCrawlersAll(Message[j].hub_id, TRUE)
         /\ HubBenchmarksAll(Message[j].hub_id, TRUE)
    /\ (pc[j] = "done" /\ result[j] = "Ok") =>
         /\ events[j] = <<"set_hub_crawlers_processing(true)",
                          "set_hub_benchmarks_processing(true)",
                          "job_started",
                          "set_hub_crawlers_processing(false)",
                          "set_hub_benchmarks_processing(false)">>
         /\ HubIdle(Message[j].hub_id)

(***************************************************************************)
(* C5 as amended.  Such a run issues exactly those five calls in that      *)
(* order, a reset call possibly failing; both flag groups are true during  *)
(* the job body; when the guard returns Ok(Some(value)) every flag group   *)
(* whose reset write succeeded is false (a failed reset is only logged and *)
(* leaves its group true).                                                 *)
(***************************************************************************)
C5_SuccessSequence ==
  \A j \in CategoryJobs :
    /\ pc[j] = "job" =>
         /\ HubCrawlersAll(Message[j].hub_id, TRUE)
         /\ HubBenchmarksAll(Message[j].hub_id, TRUE)
         /\ events[j] = <<"set_hub_crawlers_processing(true)",
                          "set_hub_benchmarks_processing(true)">>
    /\ (pc[j] = "done" /\ result[j] = "Ok") =>
         /\ Len(events[j]) = 5
         /\ Claimed(j)
         /\ events[j][3] = "job_started"
         /\ events[j][4] \in ResetCrawlersCalls
         /\ events[j][5] \in ResetBenchmarksCalls
         /\ events[j][4] = "set_hub_crawlers_processing(false)"
              => HubCrawlersAll(Message[j].hub_id, FALSE)
         /\ events[j][5] = "set_hub_benchmarks_processing(false)"
              => HubBenchmarksAll(Message[j].hub_id, FALSE)

C5_Witness ==
  \E j \in CategoryJobs :
    /\ pc[j] = "done" /\ result[j] = "Ok"
    /\ events[j] = <<"set_hub_crawlers_processing(true)",
                     "set_hub_benchmarks_processing(true)",
                     "job_started",
                     "set_hub_crawlers_processing(false)",
                     "set_hub_benchmarks_processing(false)">>
    /\ HubIdle(Message[j].hub_id)

(***************************************************************************)
(* C6 as stated.  When set_hub_benchmarks_processing(true) fails after     *)
(* set_hub_crawlers_processing(true) succeeded, the guard does not run the *)
(* job body, resets the crawler flags, writes no benchmark flag again and  *)
(* returns Err with both flag groups false.                                *)
(***************************************************************************)
BenchmarksClaimFailed(j) ==
  /\ Len(events[j]) >= 2
  /\ events[j][1] = "set_hub_crawlers_processing(true)"
  /\ events[j][2] = "set_hub_benchmarks_processing(true)->err"

C6_AsStated ==
  \A j \in CategoryJobs :
    (pc[j] = "done" /\ BenchmarksClaimFailed(j)) =>
      /\ result[j] = "Err"
      /\ outcome[j] = "none"
      /\ events[j] = <<"set_hub_crawlers_processing(true)",
                       "set_hub_benchmarks_processing(true)->err",
                       "set_hub_crawlers_processing(false)">>
      /\ HubIdle(Message[j].hub_id)

(***************************************************************************)
(* C6 as amended.  In that case the guard does not run the job body,       *)
(* issues the rollback set_hub_crawlers_processing(false) as its only      *)
(* further write and returns Err; the benchmark flags are untouched        *)
(* (false), and the crawler flags are false when the rollback write        *)
(* succeeded (a failed rollback is only logged and leaves them true).      *)
(***************************************************************************)
C6_RollbackOnBenchmarkFailure ==
  \A j \in CategoryJobs :
    /\ pc[j] = "rollback" => BenchmarksClaimFailed(j) /\ Len(events[j]) = 2
    /\ (pc[j] = "done" /\ BenchmarksClaimFailed(j)) =>
         /\ result[j] = "Err"
         /\ outcome[j] = "none"
         /\ Len(events[j]) = 3
         /\ events[j][3] \in ResetCrawlersCalls
         /\ HubBenchmarksAll(Message[j].hub_id, FALSE)
         /\ events[j][3] = "set_hub_crawlers_processing(false)"
              => HubCrawlersAll(Message[j].hub_id, FALSE)

C6_Witness ==
  \E j \in CategoryJobs :
    /\ pc[j] = "done" /\ result[j] = "Err"
    /\ events[j] = <<"set_hub_crawlers_processing(true)",
                     "set_hub_benchmarks_processing(true)->err",
                     "set_hub_crawlers_processing(false)">>
    /\ HubIdle(Message[j].hub_id)

(***************************************************************************)
(* C7.  A step of a Category-Match job for hub A changes no processing     *)
(* flag of a crawler or benchmark of another hub, and the job is skipped   *)
(* only when a flag of hub A itself is true: a job for hub 8 claims and    *)
(* runs while a job for hub 7 holds hub 7's flags.                         *)
(***************************************************************************)
C7_GuardIsHubScoped ==
  [][\A j \in CategoryJobs :
       pc'[j] # pc[j] =>
         /\ \A c \in Crawlers :
              crawler_hub_id[c] # Message[j].hub_id
                => crawler_processing'[c] = crawler_processing[c]
         /\ \A b \in Benchmarks :
              benchmark_hub_id[b] # Message[j].hub_id
                => benchmark_processing'[b] = benchmark_processing[b]
         /\ result'[j] = "Skipped" => ~HubIdle(Message[j].hub_id)
    ]_vars

C7_Witness ==
  \E j1, j2 \in CategoryJobs :
    /\ Message[j1].hub_id = 7 /\ Message[j2].hub_id = 8
    /\ pc[j1] = "job" /\ pc[j2] = "job"
    /\ HubCrawlersAll(7, TRUE) /\ HubBenchmarksAll(7, TRUE)
    /\ HubCrawlersAll(8, TRUE) /\ HubBenchmarksAll(8, TRUE)

(***************************************************************************)
(* C8.  process_benchmark_message that loads a benchmark whose processing  *)
(* flag is true returns in that step and writes nothing: no row of the     *)
(* store changes (benchmark embedding, associations, num_products,         *)
(* updated_at, processing flag, product embeddings) and the job issues no  *)
(* repository write, then or later.                                        *)
(***************************************************************************)
C8_RunningBenchmarkIsLeftAlone ==
  [][\A j \in BenchmarkJobs :
       /\ (/\ pc[j] = "start" /\ pc'[j] # "start"
           /\ benchmark_processing[Message[j].benchmark_id])
            => /\ pc'[j] = "done"
               /\ result'[j] \in {"AlreadyRunning", "Err"}
               /\ events'[j] = <<>>
               /\ UNCHANGED db
       /\ result[j] = "AlreadyRunning"
            => UNCHANGED <<pc[j], events[j], result[j]>>
    ]_vars

C8_Witness ==
  \E j \in BenchmarkJobs :
    /\ pc[j] = "done" /\ result[j] = "AlreadyRunning" /\ events[j] = <<>>
    /\ benchmark_processing[Message[j].benchmark_id]

(***************************************************************************)
(* C9.  Of two concurrent jobs for the same Benchmark(benchmark_id)        *)
(* envelope at most one passes the processing check and executes           *)
(* process_benchmark.                                                      *)
(***************************************************************************)
C9_DuplicateBenchmarkRejected ==
  \A j1, j2 \in BenchmarkJobs :
    (j1 # j2 /\ Message[j1].benchmark_id = Message[j2].benchmark_id)
      => ~(InWorkPhase(j1) /\ InWorkPhase(j2))

(***************************************************************************)
(* C10 as stated.  A Benchmark job whose process_benchmark failed midway    *)
(* ends with the benchmark's processing flag still true.                   *)
(***************************************************************************)
C10_AsStated ==
  \A j \in BenchmarkJobs :
    (pc[j] = "done" /\ outcome[j] = "Err")
      => benchmark_processing[Message[j].benchmark_id]

(***************************************************************************)
(* C10 as amended.  A step of process_benchmark that fails writes nothing  *)
(* and returns to process_benchmark_message, which still calls             *)
(* update_benchmark_stats; when that call succeeds it sets the benchmark's *)
(* processing flag to false and num_products to the counted associations,  *)
(* and only when it fails does the job end without touching the flag.      *)
(***************************************************************************)
Last(seq) == seq[Len(seq)]

C10_FailedRunStillUpdatesStats ==
  [][\A j \in BenchmarkJobs :
       /\ (outcome[j] # "Err" /\ outcome'[j] = "Err")
            => /\ pc[j] \in {"embedder", "benchmark_embedding", "list_crawlers",
                             "remove_associations", "list_products",
                             "product_embedding", "set_association"}
               /\ pc'[j] = "count_associations"
               /\ UNCHANGED db
       /\ (outcome[j] = "Err" /\ pc[j] = "update_stats" /\ pc'[j] = "done")
            => IF Last(events'[j]) = "update_benchmark_stats"
               THEN /\ ~benchmark_processing'[Message[j].benchmark_id]
                    /\ benchmark_stats'[Message[j].benchmark_id].num_products
                         = local[j].product_count
               ELSE UNCHANGED db
       /\ (outcome[j] = "Err" /\ pc[j] = "count_associations" /\ pc'[j] = "done")
            => UNCHANGED db
    ]_vars

C10_Witness ==
  \E j \in BenchmarkJobs :
    /\ pc[j] = "done" /\ outcome[j] = "Err"
    /\ local[j].failed = "set_benchmark_association"
    /\ Last(events[j]) = "update_benchmark_stats"
    /\ ~benchmark_processing[Message[j].benchmark_id]


(***************************************************************************)
(* C11.  In a Benchmark run every set_benchmark_association comes after    *)
(* the run's remove_benchmark_associations, and when the run completes its *)
(* loop over the crawlers the associations of its benchmark are exactly    *)
(* the pairs this run inserted.                                            *)
(***************************************************************************)
associations(benchmark_id) ==
  {a \in product_benchmark : a.benchmark_id = benchmark_id}

RemovesBeforeInserts(j) ==
  \A i \in DOMAIN events[j] :
    events[j][i] \in {"set_benchmark_association", "set_benchmark_association->err"}
      => \E k \in 1..(i - 1) : events[j][k] = "remove_benchmark_associations"

CompletesLoop(j) ==
  pc[j] = "list_products" /\ pc'[j] = "count_associations" /\ outcome'[j] = "Ok"

C11_AssociationsReplacedPerRun ==
  [][\A j \in BenchmarkJobs :
       /\ RemovesBeforeInserts(j)
       /\ CompletesLoop(j) =>
            {a.product_id : a \in associations(Message[j].benchmark_id)'}
              = local'[j].inserted]_vars


(***************************************************************************)
(* C12.  The associations of a benchmark never number more than 10 per     *)
(* crawler of its hub: at most 10 of them point at products of any one     *)
(* crawler, and so at most 10 times the number of the hub's crawlers in    *)
(* all.                                                                    *)
(***************************************************************************)
crawler_of(product_id) ==
  LET rows == {p \in products : p.id = product_id}
  IN  IF rows = {} THEN 0 ELSE (CHOOSE p \in rows : TRUE).crawler_id

written == product_benchmark' \ product_benchmark

C14_ManualAssignmentKept ==
  [][\A p \in products :
       p.category_assignment_source = "manual" =>
         \E q \in products' :
           /\ q.id = p.id
           /\ q.category_id = p.category_id
           /\ q.category_assignment_source = "manual"]_vars

(* A job has called set_product_category_automatic for a Manual product,   *)
(* with a category other than the product's.                               *)
C14_Witness ==
  \E j \in CategoryJobs : \E p \in products : \E call \in local[j].calls :
    /\ p.category_assignment_source = "manual"
    /\ call[1] = p.id
    /\ call[2] # 0
    /\ call[2] # p.category_id

(* The products of the hub, as the job's list_products calls load them.    *)
hub_products(hub_id) == {p \in products : crawler_hub_id[p.crawler_id] = hub_id}

NoCategories(j) == local[j].categories_loaded = 0 /\ local[j].products_loaded > 0

(***************************************************************************)
(* C15.  A Category-Match job that loaded no category and at least one     *)
(* product passes absent (0) in every set_product_category_automatic call  *)
(* and counts no match; when it has gone through its loop it has called    *)
(* for every loaded product, unmatched = products_loaded, and every        *)
(* product of the hub that is not Manual has category_id absent.           *)
(***************************************************************************)
C15_EmptyDirectoryClears ==
  \A j \in CategoryJobs :
    (pc[j] \in {"match_product", "reset_crawlers", "reset_benchmarks", "done"}
       /\ NoCategories(j)) =>
      /\ \A call \in local[j].calls : call[2] = 0
      /\ local[j].matched = 0
      /\ outcome[j] = "Ok" =>
           /\ {call[1] : call \in local[j].calls}
                = {p.id : p \in hub_products(Message[j].hub_id)}
           /\ local[j].unmatched = local[j].products_loaded
           /\ \A p \in hub_products(Message[j].hub_id) :
                p.category_assignment_source # "manual" => p.category_id = 0

(* A job over an empty directory went through its loop: product 2, which  *)
(* had an automatic category, has none now, and a product of the hub still *)
(* carries the category that was assigned by hand.                         *)
C15_Witness ==
  \E j \in CategoryJobs :
    /\ outcome[j] = "Ok"
    /\ NoCategories(j)
    /\ local[j].unmatched = 3
    /\ \E p \in hub_products(Message[j].hub_id) : p.id = 2 /\ p.category_id = 0
    /\ \E p \in hub_products(Message[j].hub_id) :
         p.category_assignment_source = "manual" /\ p.category_id # 0

(* A product row, or a record handed to a writer, that was built from the  *)
(* raw product.                                                            *)
BuiltFrom(record, raw) ==
  /\ record.url = raw.url
  /\ record.sku = raw.sku
  /\ record.name = raw.name
  /\ record.price = raw.price

Persisted(raw) == \E p \in products : BuiltFrom(p, raw)

ReachesWriter(raw) ==
  \E j \in CrawlerJobs : \E i \in DOMAIN local[j].fetched :
    BuiltFrom(local[j].fetched[i], raw)

BadNumber(value) == ~is_finite(value) \/ ~is_positive(value)

EmptyIdentifier(raw) == raw.sku = "" \/ raw.name = "" \/ raw.url = 0

Wrote(j) ==
  \E i \in DOMAIN events[j] : events[j][i] \in {"create_products", "update_products"}

owned(rows, crawler_id) == {p \in rows : p.crawler_id = crawler_id}

record_of(p) ==
  [crawler_id |-> p.crawler_id, sku |-> p.sku, name |-> p.name,
   price |-> p.price, amount |-> p.amount, url |-> p.url]

records(rows) == {record_of(p) : p \in rows}

yielded(j) == {local[j].fetched[i] : i \in DOMAIN local[j].fetched}

Did(j, call) == \E i \in DOMAIN events[j] : events[j][i] = call

DeleteStep(j) == pc[j] = "delete_products" /\ pc'[j] = "get_products"

CreateStep(j) == pc[j] = "create_products" /\ pc'[j] = "count_products"

(* C17 as stated: a full-replace Crawl that has finished left its crawler  *)
(* with exactly the products its pipeline yielded.                         *)
C17_AsStated ==
  \A j \in CrawlerJobs :
    (full_replace(j) /\ result[j] = "Finished") =>
      records(owned(products, local[j].crawler_id)) = yielded(j)

(***************************************************************************)
(* C17.  In a full-replace Crawl for crawler C, delete_products removes    *)
(* every product of C and every association that references one, and       *)
(* leaves the products of other crawlers and their associations as they    *)
(* are; create_products then adds exactly the yielded set N, as new rows,   *)
(* to what C holds (nothing, unless another job wrote in between) and      *)
(* touches no other row and no association; when it fails, the products    *)
(* stay as delete_products left them.                                      *)
(***************************************************************************)
C17_FullReplace ==
  [][\A j \in CrawlerJobs :
       LET c == local[j].crawler_id
           ids == {p.id : p \in owned(products, c)} IN
       /\ DeleteStep(j) =>
            /\ products' = products \ owned(products, c)
            /\ product_benchmark' = {a \in product_benchmark : a.product_id \notin ids}
       /\ CreateStep(j) =>
            /\ products \subseteq products'
            /\ product_benchmark' = product_benchmark
            /\ IF Did(j, "create_products")'
                 THEN /\ records(products' \ products) = yielded(j)
                      /\ Cardinality(products' \ products) = Len(local[j].fetched)
                      /\ \A p \in products' \ products : p.id \notin {q.id : q \in products}
                 ELSE products' = products]_vars

(* A full-replace Crawl of crawler 2, which owned products 2 and 3, has    *)
(* yielded one product at the url of product 2: the crawler owns exactly   *)
(* that record, the association of product 3 is gone and the association   *)
(* of crawler 1's product is kept.                                         *)
C17_Witness ==
  \E j \in CrawlerJobs :
    /\ full_replace(j)
    /\ local[j].crawler_id = 2
    /\ Did(j, "delete_products") /\ Did(j, "create_products")
    /\ Len(local[j].fetched) = 1
    /\ local[j].fetched[1].url = 1
    /\ records(owned(products, 2)) = yielded(j)
    /\ ~\E a \in product_benchmark : a.product_id = 3
    /\ \E a \in product_benchmark : a.product_id = 1
    /\ \E p \in products : p.crawler_id = 1

UpdateStep(j) == pc[j] = "update_products" /\ pc'[j] = "count_products"

keys(j) == {new.url : new \in yielded(j)}

(***************************************************************************)
(* C18.  The update_products step of a patch Crawl for crawler C that      *)
(* yielded the records P leaves every row of another crawler and every     *)
(* row of C whose url is not in P exactly as it is, updated_at included,   *)
(* deletes no product and touches no association; when it succeeds, the    *)
(* rows of C at the urls of P carry exactly the records P, one row per     *)
(* url, a row that existed keeping its id; when it fails nothing is        *)
(* written.  No other step of a patch Crawl writes a product.              *)
(***************************************************************************)
C18_PatchFrame ==
  [][\A j \in CrawlerJobs :
       LET c == local[j].crawler_id
           touched(rows) == {p \in owned(rows, c) : p.url \in keys(j)} IN
       /\ UpdateStep(j) =>
            /\ products \ touched(products) = products' \ touched(products')
            /\ \A p \in products : \E q \in products' : q.id = p.id /\ q.url = p.url
            /\ product_benchmark' = product_benchmark
            /\ IF Did(j, "update_products")'
                 THEN /\ records(touched(products')) = yielded(j)
                      /\ Cardinality(touched(products')) = Cardinality(keys(j))
                 ELSE products' = products
       /\ (~full_replace(j) /\ pc'[j] # pc[j] /\ ~UpdateStep(j)) =>
            products' = products /\ product_benchmark' = product_benchmark]_vars

(* The patch Crawl of crawler 2 over url 1 has written a new price to      *)
(* product 2; product 3, at url 2, still carries its first updated_at.     *)
C18_Witness ==
  \E j \in CrawlerJobs :
    /\ ~full_replace(j)
    /\ Did(j, "update_products")
    /\ local[j].crawler_id = 2
    /\ \E p \in products : p.id = 2 /\ p.url = 1 /\ p.price = 25 /\ p.updated_at > 0
    /\ \E p \in products : p.id = 3 /\ p.url = 2 /\ p.updated_at = 0

(* A row without its updated_at.                                           *)
untimed(rows) == {[p EXCEPT !.updated_at = 0] : p \in rows}

UniqueKeys(rows) ==
  \A p, q \in rows : (p.crawler_id = q.crawler_id /\ p.url = q.url) => p = q

(***************************************************************************)
(* C19.  When the update_products step of a patch Crawl has written the    *)
(* records P, writing the same P once more, at any later time, leaves the  *)
(* same rows but for updated_at and the same next id, with one row per     *)
(* (crawler_id, url); and no step ever decreases a product's updated_at.   *)
(***************************************************************************)
C19_UpsertIdempotent ==
  [][/\ \A j \in CrawlerJobs :
          (UpdateStep(j) /\ Did(j, "update_products")') =>
            \A later \in (clock' + 1)..(clock' + 2) :
              LET twice == upsert_products(products', local[j].fetched,
                                           next_product_id', later) IN
              /\ untimed(twice.rows) = untimed(products')
              /\ twice.next_id = next_product_id'
              /\ UniqueKeys(products') /\ UniqueKeys(twice.rows)
              /\ \A p \in products' : \E q \in twice.rows :
                   q.id = p.id /\ q.updated_at >= p.updated_at
     /\ \A p \in products : \A q \in products' :
          q.id = p.id => q.updated_at >= p.updated_at]_vars

(* A patch Crawl has upserted a record over the row that held its key: the *)
(* row has kept its id and carries the time of the write.                  *)
C19_Witness ==
  \E j \in CrawlerJobs : \E new \in yielded(j) : \E p \in products :
    /\ Did(j, "update_products")
    /\ record_of(p) = new
    /\ p.id < 4
    /\ p.updated_at = clock
    /\ clock > 0

CalledDelete(j) == Did(j, "delete_products") \/ Did(j, "delete_products->err")

CalledUpdate(j) == Did(j, "update_products") \/ Did(j, "update_products->err")

PastBranch(j) ==
  pc[j] \in {"count_products", "update_stats"} \/ result[j] = "Finished"

(* C20 as stated: a SelectorProducts envelope never calls delete_products. *)
C20_AsStated ==
  \A j \in CrawlerJobs :
    Message[j].variant = "SelectorProducts" => ~CalledDelete(j)

(***************************************************************************)
(* C20.  The url list alone decides the run: a Crawl whose envelope gives  *)
(* a non-empty list, which only SelectorProducts can, never calls          *)
(* delete_products and goes through update_products; a Crawl whose         *)
(* envelope gives no url, be it Selector(name) or SelectorProducts with an *)
(* empty list, calls delete_products and never update_products.            *)
(***************************************************************************)
C20_BranchByUrls ==
  \A j \in CrawlerJobs :
    /\ CalledDelete(j) => selector_urls(Message[j]) = <<>>
    /\ CalledUpdate(j) => selector_urls(Message[j]) # <<>>
    /\ selector_urls(Message[j]) # <<>> => Message[j].variant = "SelectorProducts"
    /\ PastBranch(j) => (CalledDelete(j) \/ CalledUpdate(j))

(* The SelectorProducts envelope with an empty url list has run            *)
(* delete_products, and product 3 of its crawler is gone.                  *)
C20_Witness ==
  \E j \in CrawlerJobs :
    /\ Message[j].variant = "SelectorProducts"
    /\ selector_urls(Message[j]) = <<>>
    /\ Did(j, "delete_products")
    /\ ~\E p \in products : p.id = 3

CalledStats(j) == Did(j, "update_crawler_stats") \/ Did(j, "update_crawler_stats->err")

(***************************************************************************)
(* C21.  A Crawl job that has set its crawler's processing flag and has    *)
(* returned has called update_crawler_stats, on whichever path it left.    *)
(***************************************************************************)
C21_CrawlReleasesFlag ==
  \A j \in CrawlerJobs :
    (Did(j, "set_crawler_processing(true)") /\ pc[j] = "done") => CalledStats(j)

waiting(tasks) == {t \in DOMAIN tasks : tasks[t].state = "waiting"}

batch(tasks, stage) == {t \in DOMAIN tasks : tasks[t].stage = stage}

(* C22.  At every moment of a Crawl job the requests in flight, those      *)
(* between the permit's acquisition and fetch_html's return, are at most   *)
(* the semaphore's permits, however many tasks the stage launched.         *)
C22_RequestsBounded ==
  \A j \in CrawlerJobs : Cardinality(in_flight(local[j].tasks)) <= Concurrency

(* A batch of more tasks than permits, all permits taken, one task waiting. *)
C22_Witness ==
  \E j \in CrawlerJobs :
    /\ Cardinality(batch(local[j].tasks, local[j].stage)) > Concurrency
    /\ Cardinality(in_flight(local[j].tasks)) = Concurrency
    /\ waiting(local[j].tasks) # {}

(* C23.  fetch_html gives its permit back however it returns: the permits  *)
(* not held by a fetch in progress are available, so with no fetch in      *)
(* progress all of the initial permits are.                                *)
C23_PermitsReturned ==
  \A j \in CrawlerJobs :
    pc[j] \in {"get_products_stages", "create_products"} =>
      /\ local[j].permits + Cardinality(in_flight(local[j].tasks)) = Concurrency
      /\ in_flight(local[j].tasks) = {} => local[j].permits = Concurrency

(* Two fetches have returned, one with a page and one without, none is in  *)
(* progress.                                                               *)
C23_Witness ==
  \E j \in CrawlerJobs :
    /\ in_flight(local[j].tasks) = {}
    /\ local[j].permits = Concurrency
    /\ \E s, t \in batch(local[j].tasks, 2) :
         /\ local[j].tasks[s].state = "done" /\ local[j].tasks[s].result = <<>>
         /\ local[j].tasks[t].state = "done" /\ local[j].tasks[t].result # <<>>

(* The crawl has returned with every task it launched done.                *)
Crawled(j) ==
  /\ pc[j] = "create_products"
  /\ \A t \in DOMAIN local[j].tasks : local[j].tasks[t].state = "done"

(* C24.  Provided every request terminates, every task a stage launched,   *)
(* also one that found no permit free, gets a permit and completes, and    *)
(* the last join of the crawl returns.                                     *)
C24_EveryTaskCompletes ==
  (\E j \in CrawlerJobs : pc[j] = "get_products_stages")
    ~> (\E j \in CrawlerJobs : Crawled(j))

(* A batch of more tasks than permits has been joined, every task of it    *)
(* done, and the crawl has returned.                                       *)
C24_Witness ==
  \E j \in CrawlerJobs :
    /\ pc[j] = "create_products"
    /\ \E stage \in 1..4 :
         /\ Cardinality(batch(local[j].tasks, stage)) > Concurrency
         /\ \A t \in batch(local[j].tasks, stage) : local[j].tasks[t].state = "done"

started(tasks) == {t \in DOMAIN tasks : tasks[t].state # "waiting"}

(* C25.  Within one full crawl no fetch of a stage starts before every     *)
(* fetch of the stages before it has finished: pagination after the        *)
(* category enumeration, listings after every pagination fetch, product    *)
(* details after every listing fetch.                                      *)
C25_StagesInOrder ==
  \A j \in CrawlerJobs :
    \A t \in started(local[j].tasks) : \A s \in DOMAIN local[j].tasks :
      local[j].tasks[s].stage < local[j].tasks[t].stage
        => local[j].tasks[s].state = "done"

(* A product-detail fetch is in progress after a batch of several listing  *)
(* fetches.                                                                *)
C25_Witness ==
  \E j \in CrawlerJobs :
    /\ \E t \in in_flight(local[j].tasks) : local[j].tasks[t].stage = 4
    /\ Cardinality(batch(local[j].tasks, 3)) > 1
    /\ Cardinality(batch(local[j].tasks, 2)) > 1

(* C26.  For every category url the page-url list of the pagination stage  *)
(* holds that category url itself, whatever the outcome: no pagination     *)
(* block, no page links, an unparsable last page number, or a failed fetch *)
(* of the category page.                                                   *)
C26_CategoryAlwaysListed ==
  \A j \in CrawlerJobs : \A t \in batch(local[j].tasks, 2) :
    local[j].tasks[t].state = "done"
      => local[j].tasks[t].url \in range(local[j].tasks[t].result)

positions(list, url) == {i \in DOMAIN list : list[i].url = url}

Max(S) == CHOOSE x \in S : \A y \in S : y <= x

Min(S) == CHOOSE x \in S : \A y \in S : x <= y

Duplicated(list) ==
  \E i, k \in DOMAIN list : i # k /\ list[i].url = list[k].url /\ list[i] # list[k]

(* The crawl's final list has one record for every url of the flattened    *)
(* list and no other: the first of the url's records, or the last.         *)
OneOfEach(final, flattened, first) ==
  /\ \A i, k \in DOMAIN final : final[i].url = final[k].url => i = k
  /\ {final[i].url : i \in DOMAIN final} = {flattened[i].url : i \in DOMAIN flattened}
  /\ \A i \in DOMAIN final :
       LET at == positions(flattened, final[i].url) IN
       final[i] = flattened[IF first THEN Min(at) ELSE Max(at)]

(* C27 as stated: of several records with one url in the flattened result *)
(* the final list keeps the last.                                          *)
C27_AsStated ==
  \A j \in CrawlerJobs :
    pc[j] = "create_products"
      => OneOfEach(local[j].fetched, local[j].flattened, FALSE)

(* C27.  When the flattened result of a full crawl holds several records   *)
(* with one url, the final list holds exactly one record for that url, the *)
(* first in flattened order.                                               *)
C27_FirstRecordWins ==
  \A j \in CrawlerJobs :
    pc[j] = "create_products"
      => OneOfEach(local[j].fetched, local[j].flattened, TRUE)

(* A crawl returned whose flattened result had two different records with  *)
(* one url.                                                                *)
C27_Witness ==
  \E j \in CrawlerJobs :
    /\ pc[j] = "create_products"
    /\ Duplicated(local[j].flattened)
    /\ Len(local[j].fetched) < Len(local[j].flattened)

spawned == {j \in Jobs : pc[j] # "absent"}

(* C28.  No error of the dispatcher ends the receive loop: after bytes     *)
(* that do not decode, or any other error while receiving or decoding, the *)
(* loop is still receiving, and only decoded messages have tasks.          *)
C28_LoopSurvivesErrors ==
  /\ socket.loop = "recv"
  /\ \A j \in spawned : \E i \in DOMAIN socket.received :
       socket.received[i] = Envelope(j)

Returned(j) == local[j].loaded # <<>>

(* C29.  load_or_generate_embedding called with an existing blob returns   *)
(* the blob reinterpreted as 32-bit floats, four bytes each and nothing    *)
(* rescaled, with generated = false; it calls neither the embedder nor     *)
(* persist.  The result is fixed by the blob: its bytes are the blob's.    *)
C29_BlobReinterpreted ==
  \A j \in CategoryJobs :
    (local[j].existing_blob # <<>> /\ pc[j] # "load_or_generate_embedding") =>
      /\ Returned(j)
      /\ Head(local[j].loaded).ok
      /\ ~Head(local[j].loaded).generated
      /\ cast_bytes(Head(local[j].loaded).embedding) = Head(local[j].existing_blob)
      /\ local[j].embedder_calls = 0
      /\ local[j].persisted = <<>>
      /\ events[j] = <<>>
      /\ products = InitProducts

(* A stored blob of two floats whose bytes differ has been loaded and used. *)
C29_Witness ==
  \E j \in CategoryJobs :
    /\ pc[j] = "done"
    /\ local[j].existing_blob # <<>>
    /\ Len(Head(local[j].loaded).embedding) = MaxFloats
    /\ Head(local[j].loaded).embedding[1][1] # Head(local[j].loaded).embedding[1][4]
    /\ local[j].used = <<Head(local[j].loaded).embedding>>

norm_squared(vector) == sum_squares(vector)

(* C30.  load_or_generate_embedding called with no blob calls the embedder *)
(* once; it returns (v, true) only after persist(v) succeeded, v being the *)
(* embedder's first vector normalised; when the embedder or persist fails  *)
(* it returns an error and the caller ends with Err, having used no        *)
(* embedding.                                                              *)
C30_GeneratedIsPersisted ==
  \A j \in CategoryJobs :
    (local[j].existing_blob = <<>> /\ Returned(j)) =>
      LET loaded == Head(local[j].loaded) IN
      /\ local[j].embedder_calls = 1
      /\ loaded.ok =>
           /\ loaded.generated
           /\ local[j].persisted = <<cast_bytes(loaded.embedding)>>
           /\ Did(j, "set_product_embedding")
           /\ \E p \in products : p.id = Head(local[j].products).id /\ p.embedding
           /\ local[j].embedded # <<>>
           /\ LET output == Head(local[j].embedded) IN
              /\ output = <<>> => loaded.embedding = <<>>
              /\ output # <<>> =>
                   /\ Len(loaded.embedding) = Len(Head(output))
                   /\ \/ norm_squared(loaded.embedding) = 100 * 100
                      \/ norm_squared(Head(output)) = 0 /\ loaded.embedding = Head(output)
           /\ \A i \in DOMAIN local[j].used : local[j].used[i] = loaded.embedding
      /\ ~loaded.ok =>
           /\ pc[j] = "done"
           /\ outcome[j] = "Err"
           /\ local[j].used = <<>>
           /\ local[j].persisted = <<>>

(* An embedding was generated from a vector that was not of unit length,   *)
(* persisted and then used.                                                *)
C30_Witness ==
  \E j \in CategoryJobs :
    /\ local[j].existing_blob = <<>>
    /\ pc[j] = "done"
    /\ local[j].embedded # <<>>
    /\ Head(local[j].embedded) # <<>>
    /\ norm_squared(Head(Head(local[j].embedded))) > 100 * 100
    /\ local[j].used = <<Head(local[j].loaded).embedding>>
    /\ local[j].persisted # <<>>

(* C31.  search_top_k returns the empty list when items is empty or k = 0; *)
(* otherwise at most k (id, distance) pairs, their ids from items and no   *)
(* id twice, nearest first and none of the items left out nearer than one  *)
(* returned: for k = 1 the item of smallest cosine distance to the query.  *)
C31_NearestFirst ==
  \A j \in CategoryJobs :
    pc[j] = "searched" =>
      LET found == local[j].neighbors
          items == {local[j].items[i] : i \in DOMAIN local[j].items}
          ids == {found[i][1] : i \in DOMAIN found}
      IN  /\ (items = {} \/ local[j].k = 0) => found = <<>>
          /\ Len(found) <= local[j].k
          /\ (items # {} /\ local[j].k > 0) => found # <<>>
          /\ ids \subseteq items
          /\ Cardinality(ids) = Len(found)
          /\ \A i \in DOMAIN found :
               found[i][2] = category_distance(local[j].query, found[i][1])
          /\ \A i, k \in DOMAIN found : i < k => found[i][2] <= found[k][2]
          /\ \A i \in DOMAIN found : \A id \in items \ ids :
               found[i][2] <= category_distance(local[j].query, id)

(* A search for the one nearest of three items, the nearest being neither  *)
(* the first nor the only one given.                                       *)
C31_Witness ==
  \E j \in CategoryJobs :
    /\ pc[j] = "searched"
    /\ local[j].k = 1
    /\ Len(local[j].items) = 3
    /\ Len(local[j].neighbors) = 1
    /\ local[j].neighbors[1][1] # local[j].items[1]

Maps(input, amount, units) == parse_amount_units(input) = Parsed(amount, units)

comma_as_point(s) == [i \in DOMAIN s |-> IF s[i] = "," THEN "." ELSE s[i]]

C33_AsStated == \A hub_id \in Hubs : active_crawlers(hub_id) <= 1

ClaimCrawlersStep(j) == pc[j] = "set_crawlers" /\ pc'[j] = "set_benchmarks"

CrawlerFlagStep(j) ==
  /\ pc[j] = "set_processing"
  /\ pc'[j] # pc[j]
  /\ crawler_processing' # crawler_processing

(***************************************************************************)
(* C33.  The number of processing crawlers of a hub is not limited to one. *)
(* The claim step of a Category-Match run writes processing = true to      *)
(* every crawler of its hub and to no crawler of another hub, so after it  *)
(* all the hub's crawlers are processing; a Crawl job that sets its flag   *)
(* writes the flag of its own crawler only, whatever the flags of the      *)
(* hub's other crawlers are.                                               *)
(***************************************************************************)
C33_ClaimMarksEveryCrawler ==
  [][/\ \A j \in CategoryJobs :
          ClaimCrawlersStep(j) =>
            /\ HubCrawlersAll(Message[j].hub_id, TRUE)'
            /\ \A c \in Crawlers :
                 crawler_hub_id[c] # Message[j].hub_id
                   => crawler_processing'[c] = crawler_processing[c]
     /\ \A j \in CrawlerJobs :
          CrawlerFlagStep(j) =>
            /\ crawler_processing'[local[j].crawler_id]
            /\ \A c \in Crawlers \ {local[j].crawler_id} :
                 crawler_processing'[c] = crawler_processing[c]
    ]_vars

C33_Witness ==
  \E j \in CategoryJobs :
    /\ pc[j] = "set_benchmarks"
    /\ Message[j].hub_id = 7
    /\ active_crawlers(7) = 2
    /\ ~crawler_processing[3]

StatsStep(j) ==
  /\ pc[j] = "update_stats"
  /\ pc'[j] = "done"
  /\ Last(events'[j]) = "update_benchmark_stats"
  /\ Len(events'[j]) = Len(events[j]) + 1

DeletesAssociations(j) ==
  DeleteStep(j) /\ product_benchmark' # product_benchmark

(***************************************************************************)
(* C34.  A full-replace Crawl that deletes association rows of a benchmark *)
(* leaves the benchmark's num_products as it was; num_products changes     *)
(* only in the final statistics update of a Benchmark run for that         *)
(* benchmark, and that update sets it to the number of associations the    *)
(* benchmark has at that moment.                                           *)
(***************************************************************************)
C34_StatsRecomputedByBenchmarkRun ==
  [][/\ \A j \in CrawlerJobs :
          DeletesAssociations(j) => benchmark_stats' = benchmark_stats
     /\ \A b \in Benchmarks :
          benchmark_stats'[b].num_products # benchmark_stats[b].num_products
            => \E j \in BenchmarkJobs : Message[j].benchmark_id = b /\ StatsStep(j)
     /\ \A j \in BenchmarkJobs :
          StatsStep(j) =>
            benchmark_stats'[Message[j].benchmark_id].num_products
              = Cardinality(associations(Message[j].benchmark_id))'
    ]_vars

rows_written == <<products, product_benchmark, product_images>>

WriteFails(j) == pc[j] = "transaction" /\ result'[j] = "Err"

WriteCommits(j) == pc[j] = "transaction" /\ result'[j] = "Ok"

images_of(product_id) == {i.url : i \in {r \in product_images : r.product_id = product_id}}

(* The images the write gives the key (crawler_id, url): those of the last *)
(* record of the input with that url.                                      *)
last_images(input, url) ==
  input[Max({i \in DOMAIN input : input[i].new.url = url})].images

(***************************************************************************)
(* C35.  The multi-row product writes are atomic.  While a write is under  *)
(* way, and when one of its statements fails, no row of products,          *)
(* product_benchmark or product_images is inserted, updated or deleted.  A *)
(* delete_products that succeeds removes the crawler's products and every  *)
(* association that referenced one of them in the same step; a             *)
(* create_products or update_products that succeeds leaves, in the same    *)
(* step, every record of its input stored with exactly the image set       *)
(* handed in with it.                                                      *)
(***************************************************************************)
C35_WritesAreAtomic ==
  [][\A j \in CrawlerJobs :
       /\ pc[j] = "transaction" /\ ~WriteCommits(j) => UNCHANGED rows_written
       /\ WriteFails(j) => UNCHANGED <<rows_written, next_product_id>>
       /\ WriteCommits(j) /\ local[j].op = "delete_products" =>
            /\ products' = {p \in products : p.crawler_id # local[j].crawler_id}
            /\ product_benchmark' =
                 {a \in product_benchmark :
                    \A p \in owned(products, local[j].crawler_id) : a.product_id # p.id}
       /\ WriteCommits(j) /\ local[j].op \in {"create_products", "update_products"} =>
            \A i \in DOMAIN local[j].input :
              \E p \in products' :
                /\ record_of(p) = local[j].input[i].new
                /\ images_of(p.id)' = last_images(local[j].input, p.url)
    ]_vars

C35_Witness ==
  \E j \in CrawlerJobs :
    /\ result[j] = "Err"
    /\ local[j].op = "create_products"
    /\ local[j].tx.products # local[j].before.products
    /\ local[j].tx.product_images # local[j].before.product_images
    /\ local[j].statements # <<>>
    /\ Tables = local[j].before

(***************************************************************************)
(* C36.  In every reachable state every association row references an      *)
(* existing product, also while a full-replace Crawl of a crawler runs     *)
(* concurrently with a Benchmark job of the crawler's hub.                 *)
(***************************************************************************)
C36_AssociationsReferenceProducts ==
  \A a \in product_benchmark : \E p \in products : p.id = a.product_id

(***************************************************************************)
(* C37.  While a Crawl job is in its work phase the processing flag of its *)
(* crawler is true, and while a Benchmark job is in its work phase the     *)
(* processing flag of its benchmark is true: no other job's write resets   *)
(* the flag before the job itself does.                                    *)
(***************************************************************************)
C37_FlagHeldThroughWorkPhase ==
  /\ \A j \in CrawlerJobs :
       InWorkPhase(j) => crawler_processing[local[j].crawler_id]
  /\ \A j \in BenchmarkJobs :
       InWorkPhase(j) => benchmark_processing[Message[j].benchmark_id]

Emptied(j) ==
  /\ full_replace(j)
  /\ Did(j, "delete_products")
  /\ local[j].fetched = <<>> \/ Did(j, "create_products->err")

Finishes(j) == pc[j] # "done" /\ pc'[j] = "done" /\ result'[j] = "Finished"

(***************************************************************************)
(* C38.  A full-replace Crawl deletes its crawler's products before the    *)
(* pipeline runs and nothing restores them: when the pipeline yields no    *)
(* product or create_products fails, the job finishes with its crawler     *)
(* owning no product, having called update_crawler_stats, which on success *)
(* has recorded num_products = 0 and processing = false.                   *)
(***************************************************************************)
C38_EmptiedCrawlerStaysEmpty ==
  [][\A j \in CrawlerJobs :
       /\ pc'[j] = "get_products" /\ pc[j] # "get_products" => DeleteStep(j)
       /\ Emptied(j)' /\ Finishes(j) =>
            /\ owned(products', local[j].crawler_id) = {}
            /\ CalledStats(j)'
            /\ Did(j, "update_crawler_stats")' =>
                 /\ crawler_stats'[local[j].crawler_id].num_products = 0
                 /\ ~crawler_processing'[local[j].crawler_id]
    ]_vars

assignments(j) ==
  Cardinality({i \in DOMAIN events[j] : events[j][i] = "set_product_category_automatic"})

skipped_total(j) ==
  local[j].skipped_below_threshold + local[j].skipped_invalid_category_id
    + local[j].skipped_no_category_candidate

(***************************************************************************)
(* C39.  A Category-Match run that completes successfully has counted each *)
(* loaded product exactly once: matched + unmatched = products_loaded,     *)
(* unmatched is the sum of the three skipped counters, and                 *)
(* set_product_category_automatic was called exactly once for each loaded  *)
(* product.  While the loop runs, the products counted and those still to  *)
(* come add up to products_loaded.                                         *)
(***************************************************************************)
C39_EachProductCountedOnce ==
  \A j \in CategoryJobs :
    /\ pc[j] = "match_product" /\ outcome[j] # "Err" =>
         /\ local[j].matched + local[j].unmatched + Len(local[j].products)
              = local[j].products_loaded
         /\ local[j].unmatched = skipped_total(j)
    /\ outcome[j] = "Ok" =>
         /\ local[j].matched + local[j].unmatched = local[j].products_loaded
         /\ local[j].unmatched = skipped_total(j)
         /\ assignments(j) = local[j].products_loaded
         /\ Cardinality({call[1] : call \in local[j].calls}) = local[j].products_loaded
         /\ {call[1] : call \in local[j].calls}
              = {p.id : p \in hub_products(Message[j].hub_id)}

(* A run over a directory with one category: the two products at url 1    *)
(* were matched, the product at url 2 fell below the threshold.            *)
C39_Witness ==
  \E j \in CategoryJobs :
    /\ outcome[j] = "Ok"
    /\ local[j].products_loaded = 3
    /\ local[j].matched = 2
    /\ local[j].skipped_below_threshold = 1
    /\ assignments(j) = 3

Running(j) == pc[j] \notin {"absent", "start", "done"}

(* The job's next step calls the embedder for a product, a category, its   *)
(* benchmark.                                                              *)
EmbedsProduct(j) ==
  /\ local[j].products # <<>>
  /\ ~Head(local[j].products).embedding
  /\ \/ pc[j] = "product_embedding"
     \/ pc[j] = "match_product" /\ ~local[j].generated

EmbedsCategory(j) ==
  /\ pc[j] = "match_category_embedding"
  /\ local[j].categories # <<>>
  /\ ~Head(local[j].categories).embedding

EmbedsBenchmark(j) == pc[j] = "benchmark_embedding" /\ ~local[j].benchmark_embedding

generated_embeddings(j) ==
  Cardinality({i \in DOMAIN events[j] :
     events[j][i] \in {"set_product_embedding", "set_category_embedding",
                       "set_benchmark_embedding"}})

CompletedOk(j) == pc[j] = "done" /\ outcome[j] = "Ok"

(***************************************************************************)
(* C40.  With jobs run one after the other over unchanged data, an entity  *)
(* whose embedding is stored is not embedded again: a job calls the        *)
(* embedder only for a product, category or benchmark without a stored     *)
(* embedding, and a job that runs after a job of its hub completed         *)
(* successfully never calls the embedder for a product, nor for a category *)
(* after a Category-Match, nor for its benchmark after a run of the same   *)
(* benchmark, and has generated no embedding of those kinds.               *)
(***************************************************************************)
C40_EmbeddedOnce ==
  \A j \in CategoryJobs \cup BenchmarkJobs :
    /\ EmbedsProduct(j) =>
         \A p \in products : p.id = Head(local[j].products).id => ~p.embedding
    /\ EmbedsCategory(j) =>
         \A c \in categories : c.id = Head(local[j].categories).id => ~c.embedding
    /\ EmbedsBenchmark(j) => ~benchmark_embedding[Message[j].benchmark_id]
    /\ \A first \in (CategoryJobs \cup BenchmarkJobs) \ {j} :
         (CompletedOk(first) /\ Running(j) /\ job_hub_id(first) = job_hub_id(j)) =>
           /\ ~EmbedsProduct(j)
           /\ ~Did(j, "set_product_embedding")
           /\ (first \in CategoryJobs /\ j \in CategoryJobs) =>
                ~EmbedsCategory(j) /\ generated_embeddings(j) = 0
           /\ (first \in BenchmarkJobs /\ j \in BenchmarkJobs
                 /\ Message[first].benchmark_id = Message[j].benchmark_id) =>
                ~EmbedsBenchmark(j) /\ generated_embeddings(j) = 0

(* A Category-Match run that generated embeddings has completed, and a     *)
(* second run of the hub is in its product loop with products to go.       *)
C40_Witness ==
  \E first, j \in CategoryJobs :
    /\ first # j
    /\ CompletedOk(first)
    /\ Did(first, "set_product_embedding") /\ Did(first, "set_category_embedding")
    /\ pc[j] = "match_product"
    /\ Len(local[j].products) = 2
    /\ generated_embeddings(j) = 0

=============================================================================
